---------------------------- MODULE Spec2Model ----------------------------
(***************************************************************************)
(* Model of the chatbot test harness: the ErrorHandler utility (error      *)
(* classification, error log, executeWithRetry) and the Botium script      *)
(* runner (runConversationTest).                                           *)
(*                                                                         *)
(* Strings are sequences of one-character strings, so that toLowerCase     *)
(* and String.prototype.includes are computed character by character.      *)
(* Errors are Error objects (they carry a message and a stack); the        *)
(* timestamp and stack fields of an error record and the file written by   *)
(* _logError (whose failures _logError catches) are not modelled.          *)
(***************************************************************************)
EXTENDS Integers, Sequences, FiniteSets, TLC

(***************************************************************************)
(* Bounds of the model.                                                    *)
(***************************************************************************)
MaxWords ==
    2

MaxLog ==
    1

MaxTurns ==
    3

(***************************************************************************)
(* String primitives.                                                      *)
(***************************************************************************)
UpperAlphabet ==
    <<"A","B","C","D","E","F","G","H","I","J","K","L","M","N","O","P","Q","R","S","T","U","V","W","X","Y","Z">>

LowerAlphabet ==
    <<"a","b","c","d","e","f","g","h","i","j","k","l","m","n","o","p","q","r","s","t","u","v","w","x","y","z">>

\* one character of String.prototype.toLowerCase
LowerChar(c) ==
    IF \E i \in 1..26 : UpperAlphabet[i] = c
    THEN LowerAlphabet[CHOOSE i \in 1..26 : UpperAlphabet[i] = c]
    ELSE c

toLowerCase(s) ==
    [i \in 1..Len(s) |-> LowerChar(s[i])]

\* String.prototype.includes: pat occurs in s as a contiguous substring
includes(s, pat) ==
    \E i \in 0..(Len(s) - Len(pat)) : SubSeq(s, i + 1, i + Len(pat)) = pat

(***************************************************************************)
(* The string literals of the classification heuristics.                   *)
(***************************************************************************)
s_element ==
    <<"e","l","e","m","e","n","t">>

s_selector ==
    <<"s","e","l","e","c","t","o","r">>

s_timeout ==
    <<"t","i","m","e","o","u","t">>

s_timed_out ==
    <<"t","i","m","e","d"," ","o","u","t">>

s_network ==
    <<"n","e","t","w","o","r","k">>

s_connection ==
    <<"c","o","n","n","e","c","t","i","o","n">>

s_assert ==
    <<"a","s","s","e","r","t">>

s_expected ==
    <<"e","x","p","e","c","t","e","d">>

s_browser ==
    <<"b","r","o","w","s","e","r">>

s_webdriver ==
    <<"w","e","b","d","r","i","v","e","r">>

s_javascript ==
    <<"j","a","v","a","s","c","r","i","p","t">>

s_script ==
    <<"s","c","r","i","p","t">>

s_critical ==
    <<"c","r","i","t","i","c","a","l">>

s_fatal ==
    <<"f","a","t","a","l">>

s_element_not_found ==
    <<"e","l","e","m","e","n","t"," ","n","o","t"," ","f","o","u","n","d">>

s_assertion ==
    <<"a","s","s","e","r","t","i","o","n">>
(***************************************************************************)
(* Error messages the model feeds to the classifier: phrases of up to      *)
(* MaxWords tokens of a vocabulary, joined by single spaces.  The tokens   *)
(* contain every keyword of the heuristics, some in upper or mixed case.   *)
(***************************************************************************)
w_Timeout_waiting_for ==
    <<"T","i","m","e","o","u","t"," ","w","a","i","t","i","n","g"," ","f","o","r">>

w_Network ==
    <<"N","e","t","w","o","r","k">>

w_Critical ==
    <<"C","r","i","t","i","c","a","l">>

w_FATAL ==
    <<"F","A","T","A","L">>

w_not_found ==
    <<"n","o","t"," ","f","o","u","n","d">>

w_error ==
    <<"e","r","r","o","r">>

w_failed ==
    <<"f","a","i","l","e","d">>

Vocabulary ==
    { s_element, s_selector, s_timeout, w_Timeout_waiting_for, s_timed_out,
      w_Network, s_connection, s_assert, s_assertion, s_expected, s_browser,
      s_webdriver, s_javascript, s_script, w_Critical, w_FATAL, w_not_found,
      w_error, w_failed }

RECURSIVE Phrases(_)
Phrases(n) ==
    IF n = 0
    THEN {<< >>}
    ELSE LET P == Phrases(n - 1)
         IN  P \cup { IF p = << >> THEN w ELSE p \o <<" ">> \o w :
                      p \in P, w \in Vocabulary }

Messages ==
    Phrases(MaxWords)

\* an Error object: its message, and a tag that tells two Error objects
\* with the same message apart (object identity)
Error(message, id) ==
    [message |-> message, id |-> id]

(***************************************************************************)
(* ErrorHandler: the classification heuristics.                            *)
(***************************************************************************)
\* _categorizeError with the timeout rule tried before the element rule
_categorizeError_timeoutFirst(error) ==
    LET message == toLowerCase(error.message)
    IN  IF includes(message, s_timeout) \/ includes(message, s_timed_out)
        THEN "TimeoutError"
        ELSE IF includes(message, s_element) \/ includes(message, s_selector)
        THEN "ElementNotFound"
        ELSE IF includes(message, s_network) \/ includes(message, s_connection)
        THEN "NetworkError"
        ELSE IF includes(message, s_assert) \/ includes(message, s_expected)
        THEN "AssertionError"
        ELSE IF includes(message, s_browser) \/ includes(message, s_webdriver)
        THEN "BrowserError"
        ELSE IF includes(message, s_javascript) \/ includes(message, s_script)
        THEN "JavaScriptError"
        ELSE "UnknownError"

_categorizeError(error) ==
    LET message == toLowerCase(error.message)
    IN  IF includes(message, s_element) \/ includes(message, s_selector)
        THEN "ElementNotFound"
        ELSE IF includes(message, s_timeout) \/ includes(message, s_timed_out)
        THEN "TimeoutError"
        ELSE IF includes(message, s_network) \/ includes(message, s_connection)
        THEN "NetworkError"
        ELSE IF includes(message, s_assert) \/ includes(message, s_expected)
        THEN "AssertionError"
        ELSE IF includes(message, s_browser) \/ includes(message, s_webdriver)
        THEN "BrowserError"
        ELSE IF includes(message, s_javascript) \/ includes(message, s_script)
        THEN "JavaScriptError"
        ELSE "UnknownError"

\* _determineSeverity with the network rule tried before the timeout rule
_determineSeverity_networkFirst(error) ==
    LET message == toLowerCase(error.message)
    IN  IF includes(message, s_critical) \/ includes(message, s_fatal)
        THEN "Critical"
        ELSE IF includes(message, s_network) \/ includes(message, s_connection)
        THEN "Medium"
        ELSE IF includes(message, s_timeout) \/ includes(message, s_element_not_found)
        THEN "High"
        ELSE IF includes(message, s_assertion) \/ includes(message, s_expected)
        THEN "Low"
        ELSE "Medium"

\* _determineSeverity with the Low rule keyed on "assert"
_determineSeverity_assert(error) ==
    LET message == toLowerCase(error.message)
    IN  IF includes(message, s_critical) \/ includes(message, s_fatal)
        THEN "Critical"
        ELSE IF includes(message, s_timeout) \/ includes(message, s_element_not_found)
        THEN "High"
        ELSE IF includes(message, s_network) \/ includes(message, s_connection)
        THEN "Medium"
        ELSE IF includes(message, s_assert) \/ includes(message, s_expected)
        THEN "Low"
        ELSE "Medium"

_determineSeverity(error) ==
    LET message == toLowerCase(error.message)
    IN  IF includes(message, s_critical) \/ includes(message, s_fatal)
        THEN "Critical"
        ELSE IF includes(message, s_timeout) \/ includes(message, s_element_not_found)
        THEN "High"
        ELSE IF includes(message, s_network) \/ includes(message, s_connection)
        THEN "Medium"
        ELSE IF includes(message, s_assertion) \/ includes(message, s_expected)
        THEN "Low"
        ELSE "Medium"

\* _isRecoverable with the recoverable keywords tested first
_isRecoverable_timeoutFirst(error) ==
    LET message == toLowerCase(error.message)
    IN  IF includes(message, s_timeout) \/ includes(message, s_element_not_found)
        THEN TRUE
        ELSE IF includes(message, s_fatal) \/ includes(message, s_critical)
        THEN FALSE
        ELSE TRUE

_isRecoverable(error) ==
    LET message == toLowerCase(error.message)
    IN  IF includes(message, s_fatal) \/ includes(message, s_critical)
        THEN FALSE
        ELSE IF includes(message, s_timeout) \/ includes(message, s_element_not_found)
        THEN TRUE
        ELSE TRUE

\* _isRetryable without the "assertion" keyword
_isRetryable_ignoresAssertion(error) ==
    LET message == toLowerCase(error.message)
    IN  ~(includes(message, s_fatal) \/ includes(message, s_critical))

_isRetryable(error) ==
    LET message == toLowerCase(error.message)
    IN  IF \/ includes(message, s_fatal)
           \/ includes(message, s_critical)
           \/ includes(message, s_assertion)
        THEN FALSE
        ELSE IF \/ includes(message, s_timeout)
                \/ includes(message, s_network)
                \/ includes(message, s_element_not_found)
        THEN TRUE
        ELSE TRUE

\* a record in which the computed fields win over the options
ErrorInfo_computedWins(error, context, options) ==
    [ message     |-> error.message,
      context     |-> context,
      type        |-> _categorizeError(error),
      severity    |-> _determineSeverity(error),
      recoverable |-> _isRecoverable(error) ] @@ options

\* the record handleError builds: the computed fields, overridden by the
\* spread of options ({...computed, ...options})
ErrorInfo(error, context, options) ==
    options @@ [ message     |-> error.message,
                 context     |-> context,
                 type        |-> _categorizeError(error),
                 severity    |-> _determineSeverity(error),
                 recoverable |-> _isRecoverable(error) ]

\* handleError called without options
NoOptions ==
    << >>

(***************************************************************************)
(* JavaScript values of the retry configuration: undefined or a number.    *)
(* A number is w, or w + 1/2 when h holds (a non-integer value).           *)
(***************************************************************************)
Undefined ==
    [t |-> "undefined", w |-> 0, h |-> FALSE]

Number(w) ==
    [t |-> "number", w |-> w, h |-> FALSE]

NumberAndHalf(w) ==
    [t |-> "number", w |-> w, h |-> TRUE]

\* ToBoolean: undefined and 0 are falsy
Truthy(v) ==
    v.t = "number" /\ (v.w # 0 \/ v.h)

\* a || b
OrElse(a, b) ==
    IF Truthy(a) THEN a ELSE b

\* k <= v for an integer k
LessOrEqual(k, v) ==
    v.t = "number" /\ k <= v.w

\* k === v for an integer k
StrictEquals(k, v) ==
    v.t = "number" /\ ~v.h /\ k = v.w

(***************************************************************************)
(* Inputs of the retry executor.                                           *)
(***************************************************************************)
Join(a, b) ==
    a \o <<" ">> \o b

\* "Network error", "FATAL error", "assertion failed"
RetryMessages ==
    { Join(w_Network, w_error), Join(w_FATAL, w_error), Join(s_assertion, w_failed) }

Contexts ==
    { "login", "send" }

\* the values Date.now() returns to the calls of the model
ClockReadings ==
    { 0, 1 }

SuccessValues ==
    { "ok" }

MaxRetriesOptions ==
    { Undefined, Number(0), Number(3), NumberAndHalf(1) }

RetryDelayOptions ==
    { Undefined, Number(10) }

MaxRetriesConfigs ==
    { Undefined, Number(1) }

DefaultMaxRetries ==
    3

DefaultRetryDelay ==
    1000

VARIABLES
    errorLog,        \* this.errorLog
    retryAttempts,   \* this.retryAttempts, a Map from retry keys to numbers
    maxRetries,      \* this.maxRetries
    retryDelay,      \* this.retryDelay
    now,             \* the last value read from Date.now()
    pc,              \* position of the executeWithRetry call
    context,         \* its context argument
    lMaxRetries,     \* its local maxRetries
    lRetryDelay,     \* its local retryDelay
    retryKey,        \* its local retryKey
    attempt,         \* its loop variable
    invocations,     \* outcomes of the invocations of fn made by the call
    waits,           \* delays the call has waited
    result,          \* value the call resolved to
    thrown,          \* error the call rejected with
    successAttempt,  \* attempt number of its "Success on attempt" line
    logLenAtCall,    \* length of errorLog when the call started
    classifyInput,   \* message of the error handed to the classifier
    classifyOutput,  \* what the classifier answered, once it has
    rpc,             \* position of the runConversationTest call
    convo,           \* conversation.convo
    convoIndex,      \* its loop variable i
    success,         \* its local success
    testError,       \* its local error
    driverCalls,     \* the driver calls of the runConversationTest call, with outcomes
    screenshots,     \* failure screenshots written
    report,          \* the result runConversationTest returned
    driverStarted,   \* driver.Start has returned and no driver.Stop has since
    spc,             \* position of the runVirginMediaTests call
    convos,          \* conversations.convos, as loaded from the file
    testIndex,       \* its loop variable i
    testResults,     \* its local testResults
    started,         \* names of the conversations handed to runConversationTest
    summary,         \* report.summary of generateReport
    exitCode,        \* the code handed to process.exit
    wpc,             \* position of the wait under way
    waitCall,        \* the function that was called to wait
    wallClock,       \* Date.now() of the waiting process, in ms
    startTime,       \* when the wait started
    timeoutArg,      \* its timeout argument
    timeoutMsg,      \* its message argument
    trueFrom,        \* the time from which the predicate answers true
    evaluations,     \* the evaluations of the predicate: when, and the answer
    waitOutcome,     \* what the caller of the wait got
    hpc,             \* position of the test case under way
    testBody,        \* the test whose body runs
    hookConfig,      \* the configuration file whose afterTest hook is installed
    scenarioError,   \* message of the error that ended the scenario, if any
    bodyThrew,       \* whether the body threw to the test runner
    passed,          \* the verdict the runner hands to afterTest
    browserCalls,    \* browser calls of the catch block and of the hook, with outcomes
    ppc,             \* where the call on the chatbot page is
    pageCall,        \* the method of ChatbotPage the test called
    round,           \* which waitForResponse of that call is running
    botMessages,     \* the number of bot messages on the page
    posted,          \* the replies the bot has posted since sendMessage
    botDone,         \* the bot posts no more
    initialMessageCount, \* the snapshot waitForResponse takes
    response,        \* the bot message whose text the call returned, if any
    bpc,             \* where the call of takeBeforeAfterScreenshots is
    order,           \* the steps that call has started, with their outcomes
    lastOp,          \* the utility operation called last
    lastThrew,       \* whether that call threw
    lastReturn,      \* what that call returned, or resolved to
    screenshotCount,   \* screenshotManager.screenshotCount
    screenshotHistory, \* screenshotManager.screenshotHistory
    currentSuiteName,  \* screenshotManager.currentSuiteName
    currentTestName,   \* screenshotManager.currentTestName
    screenshotFiles,   \* the files of the screenshots directory
    saved,             \* how many screenshot files have been written so far
    today,             \* the date, in days
    assertionCount,    \* assertions.assertionCount
    failedAssertions,  \* assertions.failedAssertions
    cache,             \* testDataManager.cache, a Map from cache keys to loaded data
    testData,          \* the files of the test-data directory: name to content
    loadedConversations, \* the file and the return value of the last loadConversations
    savedScript,       \* the file and the data of the last saveTestData
    sinceReset         \* the operations made since the last resetAll

handlerVars ==
    <<errorLog, retryAttempts, maxRetries, retryDelay, now>>

callVars ==
    <<pc, context, lMaxRetries, lRetryDelay, retryKey, attempt, invocations,
      waits, result, thrown, successAttempt, logLenAtCall>>

classifyVars ==
    <<classifyInput, classifyOutput>>

replayVars ==
    <<rpc, convo, convoIndex, success, testError, driverCalls, screenshots, report>>

runnerVars ==
    <<replayVars, driverStarted>>

suiteVars ==
    <<spc, convos, testIndex, testResults, started, summary, exitCode>>

waitVars ==
    <<wpc, waitCall, wallClock, startTime, timeoutArg, timeoutMsg, trueFrom,
      evaluations, waitOutcome>>

hookVars ==
    <<hpc, testBody, hookConfig, scenarioError, bodyThrew, passed, browserCalls>>

screenshotVars ==
    <<screenshotCount, screenshotHistory, currentSuiteName, currentTestName,
      screenshotFiles, saved, today>>

assertionVars ==
    <<assertionCount, failedAssertions>>

dataVars ==
    <<cache, testData, loadedConversations, savedScript>>

utilVars ==
    <<lastOp, lastThrew, lastReturn, screenshotVars, assertionVars, dataVars, sinceReset>>

\* the state of the utilities the specifications above do not use
beforeAfterVars ==
    <<bpc, order>>

\* the state of the calls that run over several steps
pageVars ==
    <<ppc, pageCall, round, botMessages, posted, botDone, initialMessageCount, response>>

flowVars ==
    <<beforeAfterVars, pageVars>>

toolVars ==
    <<waitVars, hookVars, utilVars, flowVars>>

\* the state the waits do not use
outsideWait ==
    <<handlerVars, callVars, classifyVars, runnerVars, suiteVars, hookVars, utilVars,
      flowVars>>

\* the state a test case and its hook do not use, the error log apart
outsideHook ==
    <<retryAttempts, maxRetries, retryDelay, now, callVars, classifyVars,
      runnerVars, suiteVars, waitVars, utilVars, flowVars>>

\* the state the utility singletons do not use
outsideUtils ==
    <<maxRetries, retryDelay, now, callVars, classifyVars, runnerVars,
      suiteVars, waitVars, hookVars, flowVars>>

vars ==
    <<handlerVars, callVars, classifyVars, runnerVars, suiteVars, toolVars>>

NoError ==
    Error(<< >>, 0)

NoKey ==
    <<"", 0>>

\* the locals of a call that has not started
CallIdle ==
    /\ pc = "idle"
    /\ context = ""
    /\ lMaxRetries = Undefined
    /\ lRetryDelay = Undefined
    /\ retryKey = NoKey
    /\ attempt = 0
    /\ invocations = << >>
    /\ waits = << >>
    /\ result = "none"
    /\ thrown = NoError
    /\ successAttempt = 0
    /\ logLenAtCall = 0

\* constructor
HandlerInit ==
    /\ errorLog = << >>
    /\ retryAttempts = << >>
    /\ maxRetries = Number(DefaultMaxRetries)
    /\ retryDelay = Number(DefaultRetryDelay)
    /\ now = 0
    /\ CallIdle

\* nothing handed to the classifier
ClassifyIdle ==
    /\ classifyInput = << >>
    /\ classifyOutput = << >>

NoReport ==
    [name |-> "", success |-> FALSE, error |-> "null"]

\* no conversation under test
RunnerIdle ==
    /\ rpc = "idle"
    /\ convo = << >>
    /\ convoIndex = 0
    /\ success = FALSE
    /\ testError = "null"
    /\ driverCalls = << >>
    /\ screenshots = 0
    /\ report = NoReport
    /\ driverStarted = FALSE

NoSummary ==
    [totalTests |-> 0, passedTests |-> 0, failedTests |-> 0]

StillRunning ==
    -1

\* the script has not been started
SuiteIdle ==
    /\ spc = "idle"
    /\ convos = << >>
    /\ testIndex = 0
    /\ testResults = << >>
    /\ started = << >>
    /\ summary = NoSummary
    /\ exitCode = StillRunning

NoOutcome ==
    [kind |-> "none", value |-> "", message |-> ""]

\* nobody is waiting
WaitIdle ==
    /\ wpc = "idle"
    /\ waitCall = ""
    /\ wallClock = 0
    /\ startTime = 0
    /\ timeoutArg = 0
    /\ timeoutMsg = ""
    /\ trueFrom = 0
    /\ evaluations = << >>
    /\ waitOutcome = NoOutcome

\* no test case is running
HookIdle ==
    /\ hpc = "idle"
    /\ testBody = ""
    /\ hookConfig = ""
    /\ scenarioError = << >>
    /\ bodyThrew = FALSE
    /\ passed = FALSE
    /\ browserCalls = << >>

NothingSinceReset ==
    [reset |-> FALSE, errors |-> 0, shots |-> 0, asserts |-> 0, failures |-> 0, loads |-> {}]

\* the constructors of ScreenshotManager, Assertions and TestDataManager;
\* the screenshots and test-data directories are empty
UtilsInit ==
    /\ lastOp = ""
    /\ lastThrew = FALSE
    /\ lastReturn = Undefined
    /\ screenshotCount = 0
    /\ screenshotHistory = << >>
    /\ currentSuiteName = ""
    /\ currentTestName = ""
    /\ screenshotFiles = {}
    /\ saved = 0
    /\ today = 0
    /\ assertionCount = 0
    /\ failedAssertions = << >>
    /\ cache = << >>
    /\ testData = << >>
    /\ loadedConversations = [file |-> "", value |-> << >>]
    /\ savedScript = [file |-> "", data |-> << >>]
    /\ sinceReset = NothingSinceReset

\* the utilities of toolVars as they are when the process starts
BeforeAfterIdle ==
    /\ bpc = "idle"
    /\ order = << >>

PageIdle ==
    /\ ppc = "idle"
    /\ pageCall = ""
    /\ round = 0
    /\ botMessages = 0
    /\ posted = 0
    /\ botDone = FALSE
    /\ initialMessageCount = 0
    /\ response = 0

FlowsIdle ==
    /\ BeforeAfterIdle
    /\ PageIdle

ToolsIdle ==
    /\ WaitIdle
    /\ HookIdle
    /\ UtilsInit
    /\ FlowsIdle

Init ==
    /\ HandlerInit
    /\ ClassifyIdle
    /\ RunnerIdle
    /\ SuiteIdle
    /\ ToolsIdle

\* Map.prototype.delete
MapDelete(map, key) ==
    [k \in (DOMAIN map) \ {key} |-> map[k]]

\* Map.prototype.set
MapSet(map, key, value) ==
    [k \in (DOMAIN map) \cup {key} |-> IF k = key THEN value ELSE map[k]]

\* the loop condition "attempt <= maxRetries" with the off-by-one slip
\* "attempt < maxRetries"
LoopContinues_strict(a, mr) ==
    LessOrEqual(a + 1, mr)

\* the loop condition "attempt <= maxRetries"
LoopContinues(a, mr) ==
    LessOrEqual(a, mr)

\* the last-attempt test, off by one
IsLastAttempt_early(a, mr) ==
    StrictEquals(a + 1, mr)

\* the test "attempt === maxRetries" of the catch branch
IsLastAttempt(a, mr) ==
    StrictEquals(a, mr)

\* the options with a zero-based attempt number
RetryOptions_zeroBased(a, mr) ==
    [attempt |-> a - 1, maxRetries |-> mr]

\* the options { attempt, maxRetries } the catch branch hands to handleError
RetryOptions(a, mr) ==
    [attempt |-> a, maxRetries |-> mr]

setRetryConfig(config) ==
    /\ pc = "idle"
    /\ maxRetries' = IF Truthy(config.maxRetries) THEN config.maxRetries ELSE maxRetries
    /\ retryDelay' = IF Truthy(config.retryDelay) THEN config.retryDelay ELSE retryDelay
    /\ UNCHANGED <<errorLog, retryAttempts, now, callVars>>
    /\ UNCHANGED <<classifyVars, runnerVars, suiteVars, toolVars>>

clearErrorLog ==
    /\ pc = "idle"
    /\ errorLog' = << >>
    /\ retryAttempts' = << >>
    /\ UNCHANGED <<maxRetries, retryDelay, now, callVars>>
    /\ UNCHANGED <<classifyVars, runnerVars, suiteVars, toolVars>>

\* executeWithRetry up to the first test of the loop; t is the value
\* Date.now() returns, the clock never running backwards
executeWithRetry(ctx, options, t) ==
    /\ pc = "idle"
    /\ Len(errorLog) <= MaxLog
    /\ t >= now
    /\ now' = t
    /\ lMaxRetries' = OrElse(options.maxRetries, maxRetries)
    /\ lRetryDelay' = OrElse(options.retryDelay, retryDelay)
    /\ context' = ctx
    /\ retryKey' = <<ctx, t>>
    /\ logLenAtCall' = Len(errorLog)
    /\ attempt' = 1
    /\ IF LoopContinues(1, lMaxRetries')
       THEN pc' = "attempt" /\ result' = result
       ELSE pc' = "resolved" /\ result' = "undefined"
    /\ retryAttempts' = MapSet(retryAttempts, retryKey', 0)
    /\ UNCHANGED <<errorLog, maxRetries, retryDelay, invocations, waits,
                   thrown, successAttempt>>
    /\ UNCHANGED <<classifyVars, runnerVars, suiteVars, toolVars>>

\* the try branch: fn() returns value
AttemptSucceeds(value) ==
    /\ pc = "attempt"
    /\ invocations' = Append(invocations, [ok |-> TRUE, value |-> value])
    /\ successAttempt' = attempt
    /\ retryAttempts' = MapDelete(retryAttempts, retryKey)
    /\ result' = value
    /\ pc' = "resolved"
    /\ UNCHANGED <<errorLog, maxRetries, retryDelay, now, context, lMaxRetries,
                   lRetryDelay, retryKey, attempt, waits, thrown, logLenAtCall>>
    /\ UNCHANGED <<classifyVars, runnerVars, suiteVars, toolVars>>

\* the error fn throws at its n-th invocation
ThrownBy(message, n) ==
    Error(message, n)

\* the catch branch: fn() throws an Error with the given message
AttemptFails(message) ==
    LET error == ThrownBy(message, Len(invocations) + 1)
        errorInfo == ErrorInfo(error, context, RetryOptions(attempt, lMaxRetries))
    IN  /\ pc = "attempt"
        /\ invocations' = Append(invocations, [ok |-> FALSE, error |-> error])
        /\ errorLog' = Append(errorLog, errorInfo)
        /\ IF IsLastAttempt(attempt, lMaxRetries)
           THEN /\ retryAttempts' = MapDelete(retryAttempts, retryKey)
                /\ thrown' = error
                /\ pc' = "rejected"
           ELSE IF ~_isRetryable(error)
           THEN /\ retryAttempts' = MapDelete(retryAttempts, retryKey)
                /\ thrown' = error
                /\ pc' = "rejected"
           ELSE /\ retryAttempts' = retryAttempts
                /\ thrown' = thrown
                /\ pc' = "waiting"
        /\ UNCHANGED <<maxRetries, retryDelay, now, context, lMaxRetries,
                       lRetryDelay, retryKey, attempt, waits, result,
                       successAttempt, logLenAtCall>>
        /\ UNCHANGED <<classifyVars, runnerVars, suiteVars, toolVars>>

\* this.wait(retryDelay) is over: attempt++ and the loop test
WaitDone ==
    /\ pc = "waiting"
    /\ waits' = Append(waits, lRetryDelay)
    /\ attempt' = attempt + 1
    /\ IF LoopContinues(attempt + 1, lMaxRetries)
       THEN pc' = "attempt" /\ result' = result
       ELSE pc' = "resolved" /\ result' = "undefined"
    /\ UNCHANGED <<handlerVars, context, lMaxRetries, lRetryDelay, retryKey,
                   invocations, thrown, successAttempt, logLenAtCall>>
    /\ UNCHANGED <<classifyVars, runnerVars, suiteVars, toolVars>>

\* the caller has received the outcome; the call's locals are gone
CallReturns ==
    /\ pc \in {"resolved", "rejected"}
    /\ pc' = "idle"
    /\ context' = ""
    /\ lMaxRetries' = Undefined
    /\ lRetryDelay' = Undefined
    /\ retryKey' = NoKey
    /\ attempt' = 0
    /\ invocations' = << >>
    /\ waits' = << >>
    /\ result' = "none"
    /\ thrown' = NoError
    /\ successAttempt' = 0
    /\ logLenAtCall' = 0
    /\ UNCHANGED handlerVars
    /\ UNCHANGED <<classifyVars, runnerVars, suiteVars, toolVars>>

Next ==
    \/ \E m \in MaxRetriesConfigs, d \in RetryDelayOptions :
          setRetryConfig([maxRetries |-> m, retryDelay |-> d])
    \/ clearErrorLog
    \/ \E ctx \in Contexts, m \in MaxRetriesOptions, d \in RetryDelayOptions,
          t \in ClockReadings :
          executeWithRetry(ctx, [maxRetries |-> m, retryDelay |-> d], t)
    \/ \E v \in SuccessValues : AttemptSucceeds(v)
    \/ \E m \in RetryMessages : AttemptFails(m)
    \/ WaitDone
    \/ CallReturns

Spec ==
    Init /\ [][Next]_vars

(***************************************************************************)
(* The classifier on its own: an error with any message of Messages is     *)
(* handed to handleError, and to _isRetryable as the catch branch of       *)
(* executeWithRetry does.                                                  *)
(***************************************************************************)
ClassifyError ==
    LET error == Error(classifyInput, 1)
    IN  /\ classifyOutput = << >>
        /\ classifyOutput' = << [ info      |-> ErrorInfo(error, "classify", NoOptions),
                                  retryable |-> _isRetryable(error) ] >>
        /\ UNCHANGED <<classifyInput, handlerVars, callVars, runnerVars, suiteVars, toolVars>>

InitClassify ==
    /\ HandlerInit
    /\ RunnerIdle
    /\ SuiteIdle
    /\ ToolsIdle
    /\ classifyInput \in Messages
    /\ classifyOutput = << >>

NextClassify ==
    ClassifyError

SpecClassify ==
    InitClassify /\ [][NextClassify]_vars

(***************************************************************************)
(* The Botium script runner: runConversationTest, one step per awaited     *)
(* driver call.  Whether a driver call returns or throws is the driver's   *)
(* choice (BotSays throws when the reply does not match, WaitBotSays when  *)
(* no reply arrives in time).  Turns have sender "me" or "bot", as the     *)
(* conversation file format says.                                          *)
(***************************************************************************)
Senders ==
    { "me", "bot" }

Turn(sender) ==
    [sender |-> sender, messageText |-> IF sender = "me" THEN "hello" ELSE "hi there"]

\* the conversations under test: every script of up to MaxTurns turns
Conversations ==
    UNION { { [name |-> "greeting", convo |-> [k \in 1..m |-> Turn(f[k])]] :
                f \in [1..m -> Senders] } : m \in 0..MaxTurns }

DriverCall(call, ok) ==
    [call |-> call, turn |-> convoIndex, ok |-> ok]

\* the body of the loop for i = k skips a turn that is neither "me" nor
\* "bot"; the first index from k on whose turn makes a driver call
RECURSIVE SkipOthers(_)
SkipOthers(k) ==
    IF k < Len(convo) /\ convo[k + 1].sender \notin {"me", "bot"}
    THEN SkipOthers(k + 1)
    ELSE k

\* the loop with "success = true" moved in front of it
Continue_successEarly(k) ==
    LET n == SkipOthers(k)
    IN  IF n < Len(convo)
        THEN [ rpc     |-> IF convo[n + 1].sender = "me" THEN "UserSays" ELSE "WaitBotSays",
               i       |-> n,
               success |-> TRUE ]
        ELSE [ rpc |-> "Stop", i |-> n, success |-> TRUE ]

\* a loop that checks a bot turn without waiting for the reply
Continue_skipsWait(k) ==
    LET n == SkipOthers(k)
    IN  IF n < Len(convo)
        THEN [ rpc     |-> IF convo[n + 1].sender = "me" THEN "UserSays" ELSE "BotSays",
               i       |-> n,
               success |-> success ]
        ELSE [ rpc |-> "Stop", i |-> n, success |-> TRUE ]

\* the loop test for i = k (0-based): the next awaited call, or the end of
\* the loop, "success = true" and the finally block
Continue(k) ==
    LET n == SkipOthers(k)
    IN  IF n < Len(convo)
        THEN [ rpc     |-> IF convo[n + 1].sender = "me" THEN "UserSays" ELSE "WaitBotSays",
               i       |-> n,
               success |-> success ]
        ELSE [ rpc |-> "Stop", i |-> n, success |-> TRUE ]

\* runConversationTest up to its first awaited call
EnterConversationTest(conversation) ==
    /\ rpc = "idle"
    /\ convo' = conversation.convo
    /\ report' = [NoReport EXCEPT !.name = conversation.name]
    /\ success' = FALSE
    /\ testError' = "null"
    /\ convoIndex' = 0
    /\ driverCalls' = << >>
    /\ rpc' = "Build"
    /\ UNCHANGED <<screenshots, handlerVars, callVars, classifyVars, toolVars>>

runConversationTest(conversation) ==
    /\ EnterConversationTest(conversation)
    /\ UNCHANGED <<driverStarted, suiteVars>>

\* an awaited driver call of the try block returns
DriverCallReturns ==
    /\ rpc \in {"Build", "Start", "UserSays", "WaitBotSays", "BotSays"}
    /\ driverCalls' = Append(driverCalls, DriverCall(rpc, TRUE))
    /\ LET next == CASE rpc = "Build" -> [rpc |-> "Start", i |-> convoIndex, success |-> success]
                     [] rpc = "Start" -> Continue(0)
                     [] rpc = "UserSays" -> Continue(convoIndex + 1)
                     [] rpc = "WaitBotSays" -> [rpc |-> "BotSays", i |-> convoIndex, success |-> success]
                     [] rpc = "BotSays" -> Continue(convoIndex + 1)
       IN  /\ rpc' = next.rpc
           /\ convoIndex' = next.i
           /\ success' = next.success
    /\ driverStarted' = (rpc = "Start" \/ driverStarted)
    /\ UNCHANGED <<convo, testError, screenshots, report, handlerVars, callVars, classifyVars, suiteVars, toolVars>>

\* an awaited driver call of the try block throws: the catch block up to
\* its awaited screenshot
DriverCallThrows ==
    /\ rpc \in {"Build", "Start", "UserSays", "WaitBotSays", "BotSays"}
    /\ driverCalls' = Append(driverCalls, DriverCall(rpc, FALSE))
    /\ testError' = rpc
    /\ rpc' = "takeScreenshot"
    /\ UNCHANGED <<convo, convoIndex, success, screenshots, report, driverStarted, handlerVars, callVars, classifyVars, suiteVars, toolVars>>

\* the failure screenshot is written, or taking it throws and is caught
TakeScreenshot(ok) ==
    /\ rpc = "takeScreenshot"
    /\ screenshots' = IF ok THEN screenshots + 1 ELSE screenshots
    /\ rpc' = "Stop"
    /\ UNCHANGED <<convo, convoIndex, success, testError, driverCalls, report, driverStarted, handlerVars, callVars, classifyVars, suiteVars, toolVars>>

\* the driver after a call of Stop: stopped when the call returned
Stopped(returned) ==
    IF returned THEN FALSE ELSE driverStarted

\* the result object of runConversationTest
Result ==
    [name |-> report.name, success |-> success, error |-> testError]

\* the finally block: Stop, then Clean; an error of either is caught and
\* logged, and the result is returned
Cleanup(ok) ==
    /\ rpc \in {"Stop", "Clean"}
    /\ driverCalls' = Append(driverCalls, DriverCall(rpc, ok))
    /\ IF rpc = "Stop" /\ ok
       THEN /\ rpc' = "Clean"
            /\ report' = report
       ELSE /\ rpc' = "returned"
            /\ report' = Result
    /\ driverStarted' = Stopped(rpc = "Stop" /\ ok)
    /\ UNCHANGED <<convo, convoIndex, success, testError, screenshots, handlerVars, callVars, classifyVars, suiteVars, toolVars>>

InitRunner ==
    /\ HandlerInit
    /\ ClassifyIdle
    /\ RunnerIdle
    /\ SuiteIdle
    /\ ToolsIdle

NextRunner ==
    \/ \E c \in Conversations : runConversationTest(c)
    \/ DriverCallReturns
    \/ DriverCallThrows
    \/ \E ok \in BOOLEAN : TakeScreenshot(ok)
    \/ \E ok \in BOOLEAN : Cleanup(ok)

SpecRunner ==
    InitRunner /\ [][NextRunner]_vars

(***************************************************************************)
(* The script run-virgin-media-tests.js: runVirginMediaTests loads the     *)
(* conversation file, initialises the driver, hands every conversation to  *)
(* runConversationTest, writes the report and exits.  Its steps end at the *)
(* awaited calls; the steps of runConversationTest are the ones above.     *)
(***************************************************************************)
MaxConvos ==
    2

ConvoNames ==
    << "greeting", "billing", "outage", "upgrade" >>

\* the scripts a conversation of the file may carry
SuiteScripts ==
    { << >>, << Turn("me"), Turn("bot") >> }

\* what JSON.parse may give for conversations.convos: up to MaxConvos
\* conversations, the k-th one named ConvoNames[k]
ConversationFiles ==
    UNION { { [k \in 1..n |-> [name |-> ConvoNames[k], convo |-> f[k]]] :
                f \in [1..n -> SuiteScripts] } : n \in 0..MaxConvos }

\* process.exit, reached at the end of the run ("exited"), in the catch
\* block of runVirginMediaTests ("fatalError") or in loadConversations
\* ("loadExit")
Exit(code, at) ==
    /\ exitCode' = code
    /\ spc' = at

\* the loop test "i < conversations.convos.length" for i = k and the call of
\* runConversationTest up to its first awaited call, or the end of the loop
LoopTest(k) ==
    IF k < Len(convos)
    THEN /\ EnterConversationTest(convos[k + 1])
         /\ started' = Append(started, convos[k + 1].name)
         /\ testIndex' = k
         /\ spc' = "test"
         /\ UNCHANGED testResults
    ELSE /\ spc' = "generateReport"
         /\ testIndex' = k
         /\ UNCHANGED <<replayVars, handlerVars, callVars, classifyVars, toolVars, started, testResults>>

\* the script is started; loadConversations exits with code 1 when the file
\* cannot be read or parsed, otherwise initializeDriver awaits Build
runVirginMediaTests(file, loaded) ==
    /\ spc = "idle"
    /\ IF loaded
       THEN /\ convos' = file
            /\ spc' = "initBuild"
            /\ UNCHANGED exitCode
       ELSE /\ Exit(1, "loadExit")
            /\ UNCHANGED convos
    /\ UNCHANGED <<testIndex, testResults, started, summary>>
    /\ UNCHANGED <<runnerVars, handlerVars, callVars, classifyVars, toolVars>>

\* initializeDriver: Build, then Start; an error of either is rethrown and
\* reaches the catch block of runVirginMediaTests
initializeDriver(ok) ==
    /\ spc \in {"initBuild", "initStart"}
    /\ IF ~ok
       THEN /\ Exit(1, "fatalError")
            /\ UNCHANGED <<testIndex, testResults, started>>
            /\ UNCHANGED <<runnerVars, handlerVars, callVars, classifyVars, toolVars>>
       ELSE IF spc = "initBuild"
       THEN /\ spc' = "initStart"
            /\ UNCHANGED <<testIndex, testResults, started>>
            /\ UNCHANGED <<runnerVars, handlerVars, callVars, classifyVars, toolVars>>
       ELSE /\ LoopTest(0)
            /\ driverStarted' = TRUE
    /\ UNCHANGED <<convos, summary>>
    /\ ok => UNCHANGED exitCode

\* runConversationTest has returned: its result is pushed; before the last
\* conversation the loop awaits the 2 s delay, after it the loop ends
TestReturns ==
    /\ spc = "test"
    /\ rpc = "returned"
    /\ testResults' = Append(testResults, report)
    /\ rpc' = "idle"
    /\ spc' = IF testIndex < Len(convos) - 1 THEN "delay" ELSE "generateReport"
    /\ testIndex' = IF testIndex < Len(convos) - 1 THEN testIndex ELSE testIndex + 1
    /\ UNCHANGED <<convos, started, summary, exitCode>>
    /\ UNCHANGED <<convo, convoIndex, success, testError, driverCalls, screenshots, report, driverStarted>>
    /\ UNCHANGED <<handlerVars, callVars, classifyVars, toolVars>>

\* the delay between two tests is over: i++ and the next conversation
DelayDone ==
    /\ spc = "delay"
    /\ LoopTest(testIndex + 1)
    /\ UNCHANGED <<convos, summary, exitCode, driverStarted>>

RECURSIVE Passed(_)
\* testResults.filter(result => result.success).length
Passed(results) ==
    IF results = << >>
    THEN 0
    ELSE (IF Head(results).success THEN 1 ELSE 0) + Passed(Tail(results))

\* the summary with the failed tests taken for the ones that did not pass first
Summary_firstOnly(results) ==
    [ totalTests  |-> Len(results),
      passedTests |-> Passed(results),
      failedTests |-> IF results # << >> /\ ~Head(results).success THEN 1 ELSE 0 ]

\* report.summary as generateReport computes it
Summary(results) ==
    [ totalTests  |-> Len(results),
      passedTests |-> Passed(results),
      failedTests |-> Len(results) - Passed(results) ]

\* generateReport: the report is computed and written to the results
\* directory; an error of fs.writeFileSync reaches the catch block of
\* runVirginMediaTests
generateReport(written) ==
    /\ spc = "generateReport"
    /\ IF written
       THEN /\ summary' = Summary(testResults)
            /\ spc' = "finalStop"
            /\ UNCHANGED exitCode
       ELSE /\ Exit(1, "fatalError")
            /\ UNCHANGED summary
    /\ UNCHANGED <<convos, testIndex, testResults, started>>
    /\ UNCHANGED <<runnerVars, handlerVars, callVars, classifyVars, toolVars>>

\* "report.summary.failedTests > 0 ? 1 : 0"
ExitCodeOf(s) ==
    IF s.failedTests > 0 THEN 1 ELSE 0

\* the final cleanup: Stop, then Clean; an error of either is caught and
\* logged, and the process exits with the code of the report
FinalCleanup(ok) ==
    /\ spc \in {"finalStop", "finalClean"}
    /\ IF spc = "finalStop" /\ ok
       THEN /\ spc' = "finalClean"
            /\ UNCHANGED exitCode
       ELSE Exit(ExitCodeOf(summary), "exited")
    /\ driverStarted' = Stopped(spc = "finalStop" /\ ok)
    /\ UNCHANGED <<convos, testIndex, testResults, started, summary>>
    /\ UNCHANGED <<replayVars, handlerVars, callVars, classifyVars, toolVars>>

InitSuite ==
    /\ HandlerInit
    /\ ClassifyIdle
    /\ RunnerIdle
    /\ SuiteIdle
    /\ ToolsIdle

NextSuite ==
    \/ \E file \in ConversationFiles, loaded \in BOOLEAN : runVirginMediaTests(file, loaded)
    \/ \E ok \in BOOLEAN : initializeDriver(ok)
    \/ DriverCallReturns
    \/ DriverCallThrows
    \/ \E ok \in BOOLEAN : TakeScreenshot(ok)
    \/ \E ok \in BOOLEAN : Cleanup(ok)
    \/ TestReturns
    \/ DelayDone
    \/ \E written \in BOOLEAN : generateReport(written)
    \/ \E ok \in BOOLEAN : FinalCleanup(ok)

SpecSuite ==
    InitSuite /\ [][NextSuite]_vars

(***************************************************************************)
(* Waiting.  SessionManager.waitForValidSession polls isSessionValid once  *)
(* a second.  WaitUtils.waitForCondition and BasePage.waitForCondition     *)
(* hand their predicate to browser.waitUntil of WebdriverIO, whose loop is *)
(* not part of the sources: it is modelled by the contract of section 4.2  *)
(* of the specification, with the interval wdio.conf.js configures.  The   *)
(* predicate answers false before the time trueFrom and true from then on; *)
(* evaluating it takes time.                                               *)
(***************************************************************************)
MaxTimeoutSteps ==
    4

\* the timeouts a caller may pass, in ms
Timeouts ==
    { 500 * k : k \in 0..MaxTimeoutSteps }

Never ==
    1000000

\* the times at which the predicate may become true
TrueFroms ==
    { 400 * k : k \in 0..(MaxTimeoutSteps + 1) } \cup { Never }

\* how long one evaluation of the predicate may take, in ms
Latencies ==
    { 0, 50 }

TimeoutMessages ==
    { "Condition not met", "Chat widget should be displayed" }

SessionPollInterval ==
    1000

WaitforInterval ==
    1000

Returned(value) ==
    [kind |-> "returned", value |-> value, message |-> ""]

Threw(message) ==
    [kind |-> "threw", value |-> "", message |-> message]

\* a wrapper that logs the failure of the wait and returns
WaitUtils_waitForCondition_swallows(outcome) ==
    IF outcome.kind = "threw" THEN Returned("undefined") ELSE outcome

\* WaitUtils.waitForCondition around its awaited waitUntil: the catch block
\* logs and rethrows the error it caught
WaitUtils_waitForCondition(outcome) ==
    IF outcome.kind = "threw" THEN Threw(outcome.message) ELSE Returned("undefined")

\* BasePage.waitForCondition around its awaited waitUntil: no catch block
BasePage_waitForCondition(outcome) ==
    IF outcome.kind = "threw" THEN outcome ELSE Returned("undefined")

\* what the caller gets when the waitUntil of the wait under way ends
Wrapped(outcome) ==
    IF waitCall = "WaitUtils.waitForCondition"
    THEN WaitUtils_waitForCondition(outcome)
    ELSE BasePage_waitForCondition(outcome)

WaitCalls ==
    { "WaitUtils.waitForCondition", "BasePage.waitForCondition" }

\* the loop test "Date.now() - startTime < timeout" of waitForValidSession
\* at time t: the predicate is evaluated next, or false is returned
SessionLoop(t) ==
    IF t - startTime' < timeoutArg'
    THEN /\ wpc' = "evaluating"
         /\ waitOutcome' = NoOutcome
    ELSE /\ wpc' = "ended"
         /\ waitOutcome' = Returned("false")

\* SessionManager.waitForValidSession up to its first awaited call
waitForValidSession(timeout, T) ==
    /\ wpc = "idle"
    /\ waitCall' = "waitForValidSession"
    /\ startTime' = wallClock
    /\ timeoutArg' = timeout
    /\ timeoutMsg' = ""
    /\ trueFrom' = T
    /\ SessionLoop(wallClock)
    /\ UNCHANGED <<wallClock, evaluations>>
    /\ UNCHANGED outsideWait

\* waitForCondition of WaitUtils or of BasePage up to its awaited
\* browser.waitUntil, which evaluates the predicate first
waitForCondition(call, timeout, message, T) ==
    /\ wpc = "idle"
    /\ waitCall' = call
    /\ startTime' = wallClock
    /\ timeoutArg' = timeout
    /\ timeoutMsg' = message
    /\ trueFrom' = T
    /\ wpc' = "evaluating"
    /\ UNCHANGED <<wallClock, evaluations, waitOutcome>>
    /\ UNCHANGED outsideWait

\* waitForValidSession after isSessionValid has answered: true is returned
\* at once; an error of getTitle that is not a session error is rethrown;
\* on false the loop sleeps
SessionAnswer(value, threw) ==
    IF value
    THEN [wpc |-> "ended", outcome |-> Returned("true")]
    ELSE IF threw
    THEN [wpc |-> "ended", outcome |-> Threw("getTitle failed")]
    ELSE [wpc |-> "sleeping", outcome |-> NoOutcome]

\* browser.waitUntil after the predicate has answered at time t: true ends
\* the wait at once, an error of the predicate aborts it, and once the
\* timeout has elapsed the timeout failure with the message is raised
WaitUntilAnswer(value, threw, t) ==
    IF value
    THEN [wpc |-> "ended", outcome |-> Returned("undefined")]
    ELSE IF threw
    THEN [wpc |-> "ended", outcome |-> Threw("predicate failed")]
    ELSE IF t - startTime >= timeoutArg
    THEN [wpc |-> "ended", outcome |-> Threw(timeoutMsg)]
    ELSE [wpc |-> "sleeping", outcome |-> NoOutcome]

\* the awaited predicate answers after latency ms; before trueFrom it
\* answers false or throws
PredicateAnswers(latency, threw) ==
    /\ wpc = "evaluating"
    /\ wallClock' = wallClock + latency
    /\ LET value == wallClock' >= trueFrom
           answer == IF waitCall = "waitForValidSession"
                     THEN SessionAnswer(value, threw)
                     ELSE LET a == WaitUntilAnswer(value, threw, wallClock')
                          IN  [a EXCEPT !.outcome = IF a.wpc = "ended" THEN Wrapped(@) ELSE @]
       IN  /\ evaluations' = Append(evaluations, [asked |-> wallClock, at |-> wallClock', value |-> value])
           /\ wpc' = answer.wpc
           /\ waitOutcome' = answer.outcome
    /\ UNCHANGED <<waitCall, startTime, timeoutArg, timeoutMsg, trueFrom>>
    /\ UNCHANGED outsideWait

\* the sleep between two evaluations is over
SleepDone ==
    /\ wpc = "sleeping"
    /\ UNCHANGED <<waitCall, startTime, timeoutArg, timeoutMsg, trueFrom, evaluations>>
    /\ IF waitCall = "waitForValidSession"
       THEN /\ wallClock' = wallClock + SessionPollInterval
            /\ SessionLoop(wallClock')
       ELSE /\ wallClock' = wallClock + WaitforInterval
            /\ wpc' = "evaluating"
            /\ UNCHANGED waitOutcome
    /\ UNCHANGED outsideWait

InitWait ==
    /\ HandlerInit
    /\ ClassifyIdle
    /\ RunnerIdle
    /\ SuiteIdle
    /\ ToolsIdle

NextWait ==
    \/ \E timeout \in Timeouts, T \in TrueFroms : waitForValidSession(timeout, T)
    \/ \E call \in WaitCalls, timeout \in Timeouts, message \in TimeoutMessages, T \in TrueFroms :
           waitForCondition(call, timeout, message, T)
    \/ \E latency \in Latencies, threw \in BOOLEAN : PredicateAnswers(latency, threw)
    \/ SleepDone

SpecWait ==
    InitWait /\ [][NextWait]_vars

(***************************************************************************)
(* A test case under the test runner: the body of the test, whose scenario *)
(* ends with or without an error, the verdict of the runner, and the       *)
(* afterTest hook of the configuration.  The bodies are the three tests    *)
(* whose catch blocks differ; the hooks are the ones of the two            *)
(* configuration files.  Whether a browser call returns or throws is the   *)
(* browser's choice.                                                       *)
(***************************************************************************)
TestBodies ==
    { "demo", "waitFunctions", "integration" }

HookConfigs ==
    { "part_006", "wdio.conf.js" }

ProbeOutcomes ==
    { "ok", "sessionError", "otherError" }

BrowserCall(by, call, ok) ==
    [by |-> by, call |-> call, ok |-> ok]

\* the runner calls afterTest with the verdict p: a passed test is logged;
\* for a failed one the hook of part_006 probes the session first and the
\* hook of wdio.conf.js goes straight to the screenshot
EnterAfterTest(p) ==
    /\ passed' = p
    /\ hpc' = IF p THEN "reported"
              ELSE IF hookConfig = "part_006" THEN "hookProbe"
              ELSE "hookScreenshot"

\* the runner starts a test case
RunTest(body, config) ==
    /\ hpc = "idle"
    /\ testBody' = body
    /\ hookConfig' = config
    /\ hpc' = "scenario"
    /\ UNCHANGED <<scenarioError, bodyThrew, passed, browserCalls, errorLog>>
    /\ UNCHANGED outsideHook

\* the scenario of the try block ends without an error
ScenarioCompletes ==
    /\ hpc = "scenario"
    /\ bodyThrew' = FALSE
    /\ EnterAfterTest(TRUE)
    /\ UNCHANGED <<testBody, hookConfig, scenarioError, browserCalls, errorLog>>
    /\ UNCHANGED outsideHook

\* the scenario outlasts the timeout of the test (90 s for the demo test,
\* the mochaOpts timeout otherwise): the runner fails the test
ScenarioTimesOut ==
    /\ hpc = "scenario"
    /\ bodyThrew' = FALSE
    /\ EnterAfterTest(FALSE)
    /\ UNCHANGED <<testBody, hookConfig, scenarioError, browserCalls, errorLog>>
    /\ UNCHANGED outsideHook

\* an error ends the scenario and the catch block of the body runs: the
\* demo test awaits its session probe; the wait test hands the error to
\* handleError and returns; the integration test hands it to handleError,
\* calls takeFailureScreenshot without a browser, which throws, and so
\* throws to the runner
ScenarioFails(message) ==
    /\ hpc = "scenario"
    /\ scenarioError' = message
    /\ IF testBody = "demo"
       THEN /\ hpc' = "demoProbe"
            /\ UNCHANGED <<bodyThrew, passed, errorLog>>
       ELSE IF testBody = "waitFunctions"
       THEN /\ errorLog' = Append(errorLog, ErrorInfo(Error(message, 1), "Wait utilities test", NoOptions))
            /\ bodyThrew' = FALSE
            /\ EnterAfterTest(TRUE)
       ELSE /\ errorLog' = Append(errorLog, ErrorInfo(Error(message, 1), "Integration test", NoOptions))
            /\ bodyThrew' = TRUE
            /\ EnterAfterTest(FALSE)
    /\ UNCHANGED <<testBody, hookConfig, browserCalls>>
    /\ UNCHANGED outsideHook

\* the catch block of the demo test: isSessionValid answers; on true the
\* error screenshot is awaited, on false or on an error, which the inner
\* try catches, the body returns without throwing
DemoProbe(outcome) ==
    /\ hpc = "demoProbe"
    /\ browserCalls' = Append(browserCalls, BrowserCall("body", "getTitle", outcome = "ok"))
    /\ IF outcome = "ok"
       THEN /\ hpc' = "demoScreenshot"
            /\ UNCHANGED <<bodyThrew, passed>>
       ELSE /\ bodyThrew' = FALSE
            /\ EnterAfterTest(TRUE)
    /\ UNCHANGED <<testBody, hookConfig, scenarioError, errorLog>>
    /\ UNCHANGED outsideHook

\* the error screenshot of the demo test is saved, or saving it throws and
\* is caught; the body returns without throwing
DemoScreenshot(ok) ==
    /\ hpc = "demoScreenshot"
    /\ browserCalls' = Append(browserCalls, BrowserCall("body", "saveScreenshot", ok))
    /\ bodyThrew' = FALSE
    /\ EnterAfterTest(TRUE)
    /\ UNCHANGED <<testBody, hookConfig, scenarioError, errorLog>>
    /\ UNCHANGED outsideHook

\* afterTest of part_006: browser.getTitle answers; sessionValid is true
\* only when it returned
HookProbe(outcome) ==
    /\ hpc = "hookProbe"
    /\ browserCalls' = Append(browserCalls, BrowserCall("hook", "getTitle", outcome = "ok"))
    /\ hpc' = IF outcome = "ok" THEN "hookScreenshot" ELSE "reported"
    /\ UNCHANGED <<testBody, hookConfig, scenarioError, bodyThrew, passed, errorLog>>
    /\ UNCHANGED outsideHook

\* afterTest: the failure screenshot is saved, or saving it throws and is
\* caught; the console logs come next
HookScreenshot(ok) ==
    /\ hpc = "hookScreenshot"
    /\ browserCalls' = Append(browserCalls, BrowserCall("hook", "saveScreenshot", ok))
    /\ hpc' = "hookLogs"
    /\ UNCHANGED <<testBody, hookConfig, scenarioError, bodyThrew, passed, errorLog>>
    /\ UNCHANGED outsideHook

\* afterTest: the console logs are captured, or capturing them throws and
\* is caught; the hook returns
HookLogs(ok) ==
    /\ hpc = "hookLogs"
    /\ browserCalls' = Append(browserCalls, BrowserCall("hook", "getLogs", ok))
    /\ hpc' = "reported"
    /\ UNCHANGED <<testBody, hookConfig, scenarioError, bodyThrew, passed, errorLog>>
    /\ UNCHANGED outsideHook

InitHook ==
    /\ HandlerInit
    /\ ClassifyIdle
    /\ RunnerIdle
    /\ SuiteIdle
    /\ ToolsIdle

NextHook ==
    \/ \E body \in TestBodies, config \in HookConfigs : RunTest(body, config)
    \/ ScenarioCompletes
    \/ ScenarioTimesOut
    \/ \E message \in RetryMessages : ScenarioFails(message)
    \/ \E outcome \in ProbeOutcomes : DemoProbe(outcome)
    \/ \E ok \in BOOLEAN : DemoScreenshot(ok)
    \/ \E outcome \in ProbeOutcomes : HookProbe(outcome)
    \/ \E ok \in BOOLEAN : HookScreenshot(ok)
    \/ \E ok \in BOOLEAN : HookLogs(ok)

SpecHook ==
    InitHook /\ [][NextHook]_vars

(***************************************************************************)
(* The utility singletons as the tests call them: errorHandler,            *)
(* screenshotManager, assertions and testDataManager, and utils.resetAll.  *)
(* A call runs to its end before the next one starts, as the tests await   *)
(* every call.  lastOp names the method called last; sinceReset counts     *)
(* what was done since the last resetAll.                                  *)
(***************************************************************************)
\* the messages of the errors handed to the handlers
HandledMessages ==
    RetryMessages \cup { Join(s_element, w_not_found) }

\* a push that puts the record in front
Push_front(log, errorInfo) ==
    << errorInfo >> \o log

\* this.errorLog.push(errorInfo)
Push(log, errorInfo) ==
    Append(log, errorInfo)

\* the count of the operations made after a resetAll
Counted(field) ==
    IF sinceReset.reset THEN [sinceReset EXCEPT ![field] = @ + 1] ELSE sinceReset

\* the model follows a log of at most MaxLog + 1 records
RoomInLog ==
    Len(errorLog) <= MaxLog

\* what a call of handleError by op leaves behind
Handled(op, message, ctx, options) ==
    /\ errorLog' = Push(errorLog, ErrorInfo(Error(message, 1), ctx, options))
    /\ lastOp' = op
    /\ lastThrew' = FALSE
    /\ sinceReset' = Counted("errors")

errorHandler_handleError(message, ctx) ==
    /\ RoomInLog
    /\ Handled("handleError", message, ctx, NoOptions)
    /\ lastReturn' = [t |-> "object", v |-> errorLog'[Len(errorLog')]]
    /\ UNCHANGED <<retryAttempts, screenshotVars, assertionVars, dataVars>>
    /\ UNCHANGED outsideUtils

\* the check of the element's existence changes nothing
errorHandler_handleElementError(message) ==
    /\ RoomInLog
    /\ Handled("handleElementError", message, "click on element: #send-button",
               [selector |-> "#send-button", action |-> "click"])
    /\ lastReturn' = [t |-> "boolean", v |-> errorLog'[Len(errorLog')].recoverable]
    /\ UNCHANGED <<retryAttempts, screenshotVars, assertionVars, dataVars>>
    /\ UNCHANGED outsideUtils

errorHandler_handleNetworkError(message) ==
    /\ RoomInLog
    /\ Handled("handleNetworkError", message, "GET request to: /api/chat",
               [url |-> "/api/chat", method |-> "GET"])
    /\ lastReturn' = [t |-> "object", v |-> errorLog'[Len(errorLog')]]
    /\ UNCHANGED <<retryAttempts, screenshotVars, assertionVars, dataVars>>
    /\ UNCHANGED outsideUtils

errorHandler_handleTimeoutError(message, ctx) ==
    /\ RoomInLog
    /\ Handled("handleTimeoutError", message, ctx,
               [timeout |-> 5000, type |-> "TimeoutError"])
    /\ lastReturn' = [t |-> "object", v |-> errorLog'[Len(errorLog')]]
    /\ UNCHANGED <<retryAttempts, screenshotVars, assertionVars, dataVars>>
    /\ UNCHANGED outsideUtils

errorHandler_handleAssertionError(message) ==
    /\ RoomInLog
    /\ Handled("handleAssertionError", message, "Assertion failed: contains",
               [type |-> "AssertionError", actual |-> "hello", expected |-> "bill",
                assertion |-> "contains"])
    /\ lastReturn' = [t |-> "object", v |-> errorLog'[Len(errorLog')]]
    /\ UNCHANGED <<retryAttempts, screenshotVars, assertionVars, dataVars>>
    /\ UNCHANGED outsideUtils

\* with a browser whose state can be read, the record just pushed also
\* gets the browser state
errorHandler_handleBrowserError(message, stateRead) ==
    /\ RoomInLog
    /\ Handled("handleBrowserError", message, "Browser action: navigate",
               IF stateRead
               THEN [action |-> "navigate", type |-> "BrowserError",
                     browserState |-> [url |-> "/", title |-> "Chat"]]
               ELSE [action |-> "navigate", type |-> "BrowserError"])
    /\ lastReturn' = [t |-> "object", v |-> errorLog'[Len(errorLog')]]
    /\ UNCHANGED <<retryAttempts, screenshotVars, assertionVars, dataVars>>
    /\ UNCHANGED outsideUtils

errorHandler_clearErrorLog ==
    /\ errorLog' = << >>
    /\ retryAttempts' = << >>
    /\ lastOp' = "clearErrorLog"
    /\ lastThrew' = FALSE
    /\ lastReturn' = Undefined
    /\ UNCHANGED <<sinceReset, screenshotVars, assertionVars, dataVars>>
    /\ UNCHANGED outsideUtils

NextErrorLog ==
    \/ \E message \in HandledMessages, ctx \in Contexts : errorHandler_handleError(message, ctx)
    \/ \E message \in HandledMessages : errorHandler_handleElementError(message)
    \/ \E message \in HandledMessages : errorHandler_handleNetworkError(message)
    \/ \E message \in HandledMessages, ctx \in Contexts : errorHandler_handleTimeoutError(message, ctx)
    \/ \E message \in HandledMessages : errorHandler_handleAssertionError(message)
    \/ \E message \in HandledMessages, stateRead \in BOOLEAN : errorHandler_handleBrowserError(message, stateRead)
    \/ errorHandler_clearErrorLog

SpecErrorLog ==
    Init /\ [][NextErrorLog]_vars

(***************************************************************************)
(* ScreenshotManager.  A file of the screenshots directory is named by the *)
(* number of the capture that wrote it; timestamps are in days.            *)
(***************************************************************************)
MaxShots ==
    2

MaxDays ==
    2

SuiteNames ==
    { "Chat Tests" }

TestNames ==
    { "greets the user!", "answers" }

\* _sanitizeName on the names above: the characters other than letters,
\* digits, white space, - and _ go, white space becomes _, capitals become
\* small letters
sanitizeName(name) ==
    CASE name = "Chat Tests" -> "chat_tests"
      [] name = "greets the user!" -> "greets_the_user"
      [] OTHER -> name

Descriptions ==
    { "", "step_open" }

\* saveScreenshot fails, or it returns and the file is or is not there
CaptureOutcomes ==
    { "noBrowser", "saveFails", "statFails", "ok" }

DaysToKeepOptions ==
    { 1, 7 }

screenshotManager_setTestContext(suiteName, testName) ==
    /\ currentSuiteName' = sanitizeName(suiteName)
    /\ currentTestName' = sanitizeName(testName)
    /\ lastOp' = "setTestContext"
    /\ lastThrew' = FALSE
    /\ lastReturn' = Undefined
    /\ UNCHANGED <<screenshotCount, screenshotHistory, screenshotFiles, saved, today>>
    /\ UNCHANGED <<errorLog, retryAttempts, assertionVars, dataVars, sinceReset>>
    /\ UNCHANGED outsideUtils

ScreenshotInfo(file, description) ==
    [path |-> file, description |-> description, suite |-> currentSuiteName,
     test |-> currentTestName, timestamp |-> today, size |-> 1]

\* the body shared by takeScreenshot and takeCustomScreenshot from the call
\* of saveScreenshot on: the count goes up before the size of the file is
\* read, the record is pushed after it
Captured(description, outcome) ==
    /\ saved < MaxShots
    /\ screenshotCount < MaxShots
    /\ IF outcome \in { "noBrowser", "saveFails" }
       THEN UNCHANGED <<screenshotCount, screenshotHistory, screenshotFiles, saved, sinceReset>>
       ELSE /\ screenshotCount' = screenshotCount + 1
            /\ sinceReset' = Counted("shots")
            /\ IF outcome = "statFails"
               THEN UNCHANGED <<screenshotHistory, screenshotFiles, saved>>
               ELSE /\ saved' = saved + 1
                    /\ screenshotFiles' = screenshotFiles \cup { saved + 1 }
                    /\ screenshotHistory' =
                           Append(screenshotHistory, ScreenshotInfo(saved + 1, description))
    /\ UNCHANGED <<currentSuiteName, currentTestName, today>>

\* a capture called on its own: it resolves to the path of the file or throws
Capture(description, outcome) ==
    /\ Captured(description, outcome)
    /\ lastThrew' = (outcome # "ok")
    /\ lastReturn' = IF outcome = "ok" THEN [t |-> "path", v |-> saved + 1] ELSE Undefined
    /\ UNCHANGED <<errorLog, retryAttempts, assertionVars, dataVars>>
    /\ UNCHANGED outsideUtils

screenshotManager_takeScreenshot(description, outcome) ==
    /\ lastOp' = "takeScreenshot"
    /\ Capture(description, outcome)

screenshotManager_takeCustomScreenshot(filename, outcome) ==
    /\ lastOp' = "takeCustomScreenshot"
    /\ Capture(filename, outcome)

\* the records the filter drops
Kept_older(history, cutoffDate) ==
    SelectSeq(history, LAMBDA screenshot : screenshot.timestamp < cutoffDate)

\* this.screenshotHistory.filter(... screenshotDate >= cutoffDate)
Kept(history, cutoffDate) ==
    SelectSeq(history, LAMBDA screenshot : screenshot.timestamp >= cutoffDate)

\* the files of the records older than the cut-off are deleted
Unlinked(history, cutoffDate) ==
    { history[k].path : k \in { j \in 1..Len(history) : history[j].timestamp < cutoffDate } }

screenshotManager_cleanupOldScreenshots(daysToKeep) ==
    /\ screenshotFiles' = screenshotFiles \ Unlinked(screenshotHistory, today - daysToKeep)
    /\ screenshotHistory' = Kept(screenshotHistory, today - daysToKeep)
    /\ lastOp' = "cleanupOldScreenshots"
    /\ lastThrew' = FALSE
    /\ lastReturn' = Undefined
    /\ UNCHANGED <<screenshotCount, currentSuiteName, currentTestName, saved, today>>
    /\ UNCHANGED <<errorLog, retryAttempts, assertionVars, dataVars, sinceReset>>
    /\ UNCHANGED outsideUtils

screenshotManager_reset ==
    /\ screenshotCount' = 0
    /\ currentTestName' = ""
    /\ currentSuiteName' = ""
    /\ screenshotHistory' = << >>
    /\ lastOp' = "reset"
    /\ lastThrew' = FALSE
    /\ lastReturn' = Undefined
    /\ UNCHANGED <<screenshotFiles, saved, today>>
    /\ UNCHANGED <<errorLog, retryAttempts, assertionVars, dataVars, sinceReset>>
    /\ UNCHANGED outsideUtils

\* the count and the history of the report of getScreenshotStats
getScreenshotStats ==
    [totalScreenshots |-> screenshotCount, history |-> screenshotHistory]

\* a day passes between two calls
NextDay ==
    /\ today < MaxDays
    /\ today' = today + 1
    /\ lastOp' = "nextDay"
    /\ lastThrew' = FALSE
    /\ lastReturn' = Undefined
    /\ UNCHANGED <<screenshotCount, screenshotHistory, currentSuiteName, currentTestName,
                   screenshotFiles, saved>>
    /\ UNCHANGED <<errorLog, retryAttempts, assertionVars, dataVars, sinceReset>>
    /\ UNCHANGED outsideUtils

NextScreenshots ==
    \/ \E suiteName \in SuiteNames, testName \in TestNames :
           screenshotManager_setTestContext(suiteName, testName)
    \/ \E description \in Descriptions, outcome \in CaptureOutcomes :
           screenshotManager_takeScreenshot(description, outcome)
    \/ \E outcome \in CaptureOutcomes \ { "saveFails" } :
           screenshotManager_takeCustomScreenshot("custom", outcome)
    \/ \E daysToKeep \in DaysToKeepOptions : screenshotManager_cleanupOldScreenshots(daysToKeep)
    \/ screenshotManager_reset
    \/ NextDay

SpecScreenshots ==
    Init /\ [][NextScreenshots]_vars

(***************************************************************************)
(* takeBeforeAfterScreenshots, one call at a time, step by step: the       *)
(* capture before, the action, the capture after.                          *)
(***************************************************************************)
\* a step of the call, its outcome and the path it resolved to, if any
Step(name, ok, path) ==
    [step |-> name, ok |-> ok, path |-> IF ok THEN path ELSE 0]

\* where the call goes on although the step threw
After_goesOn(ok, next) ==
    next

\* an await that throws takes the call to its catch block, which throws on
After(ok, next) ==
    IF ok THEN next ELSE "threw"

\* what a step of the call leaves alone
BeforeAfterFrame ==
    /\ lastOp' = "takeBeforeAfterScreenshots"
    /\ UNCHANGED <<errorLog, retryAttempts, assertionVars, dataVars>>
    /\ UNCHANGED <<maxRetries, retryDelay, now, callVars, classifyVars, runnerVars,
                   suiteVars, waitVars, hookVars, pageVars>>

\* the call and its first await; without a browser the capture throws
takeBeforeAfterScreenshots(outcome) ==
    /\ bpc = "idle"
    /\ Captured("before_open", outcome)
    /\ order' = << Step("before", outcome = "ok", saved + 1) >>
    /\ bpc' = After(outcome = "ok", "action")
    /\ lastThrew' = (After(outcome = "ok", "action") = "threw")
    /\ lastReturn' = IF outcome = "ok" THEN [t |-> "path", v |-> saved + 1] ELSE Undefined
    /\ BeforeAfterFrame

\* await action()
ActionDone(ok) ==
    /\ bpc = "action"
    /\ order' = Append(order, Step("action", ok, 0))
    /\ bpc' = After(ok, "after")
    /\ lastThrew' = (After(ok, "after") = "threw")
    /\ UNCHANGED <<lastReturn, screenshotVars, sinceReset>>
    /\ BeforeAfterFrame

\* the second capture and the return of both paths
AfterCapture(outcome) ==
    /\ bpc = "after"
    /\ Captured("after_open", outcome)
    /\ order' = Append(order, Step("after", outcome = "ok", saved + 1))
    /\ bpc' = After(outcome = "ok", "returned")
    /\ lastThrew' = (After(outcome = "ok", "returned") = "threw")
    /\ lastReturn' = IF outcome = "ok"
                     THEN [t |-> "object",
                           v |-> [before |-> order[1].path, after |-> saved + 1,
                                  action |-> "open"]]
                     ELSE Undefined
    /\ BeforeAfterFrame

\* the caller has the result or the error; the next call may start
BeforeAfterSettled ==
    /\ bpc \in { "returned", "threw" }
    /\ bpc' = "idle"
    /\ order' = << >>
    /\ UNCHANGED <<lastThrew, lastReturn, screenshotVars, sinceReset>>
    /\ BeforeAfterFrame

NextBeforeAfter ==
    \/ \E outcome \in CaptureOutcomes : takeBeforeAfterScreenshots(outcome)
    \/ \E ok \in BOOLEAN : ActionDone(ok)
    \/ \E outcome \in CaptureOutcomes \ { "noBrowser" } : AfterCapture(outcome)
    \/ BeforeAfterSettled
    \/ \E testName \in TestNames : screenshotManager_setTestContext("Chat Tests", testName)
    \/ screenshotManager_reset

SpecBeforeAfter ==
    Init /\ [][NextBeforeAfter]_vars

(***************************************************************************)
(* ChatbotPage: sendMessage followed by waitForResponse, and               *)
(* sendMessageAndWaitForResponse, against a bot that posts its replies     *)
(* whenever it likes.  A wait times out when its condition is false and    *)
(* the bot posts no more.                                                  *)
(***************************************************************************)
MaxReplies ==
    3

PageCalls ==
    { "waitForResponse", "sendMessageAndWaitForResponse" }

outsidePage ==
    <<handlerVars, callVars, classifyVars, runnerVars, suiteVars, waitVars, hookVars,
      utilVars, beforeAfterVars>>

\* the test sends its message on a page that shows some bot messages
\* already, and goes on to waitForResponse
sendMessage(call, existing) ==
    /\ ppc = "idle"
    /\ pageCall = ""
    /\ pageCall' = call
    /\ botMessages' = existing
    /\ round' = 1
    /\ ppc' = "typing"
    /\ UNCHANGED <<posted, botDone, initialMessageCount, response>>
    /\ UNCHANGED outsidePage

BotPosts ==
    /\ pageCall # ""
    /\ ~botDone
    /\ posted < MaxReplies
    /\ posted' = posted + 1
    /\ botMessages' = botMessages + 1
    /\ UNCHANGED <<ppc, pageCall, round, botDone, initialMessageCount, response>>
    /\ UNCHANGED outsidePage

BotStops ==
    /\ pageCall # ""
    /\ ~botDone
    /\ botDone' = TRUE
    /\ UNCHANGED <<ppc, pageCall, round, botMessages, posted, initialMessageCount, response>>
    /\ UNCHANGED outsidePage

\* isTypingIndicatorVisible and, when the indicator shows, the wait for it
\* to disappear
TypingChecked ==
    /\ ppc = "typing"
    /\ ppc' = "snapshot"
    /\ UNCHANGED <<pageCall, round, botMessages, posted, botDone, initialMessageCount, response>>
    /\ UNCHANGED outsidePage

\* initialMessageCount = await this.getElementCount(botMessages)
Snapshot ==
    /\ ppc = "snapshot"
    /\ initialMessageCount' = botMessages
    /\ ppc' = "polling"
    /\ UNCHANGED <<pageCall, round, botMessages, posted, botDone, response>>
    /\ UNCHANGED outsidePage

\* the condition currentMessageCount > initialMessageCount holds: the
\* waitForResponse returns; sendMessageAndWaitForResponse goes on to
\* getLastResponse, which waits for a response again and then reads the
\* text of the last bot message
ResponseSeen ==
    /\ ppc = "polling"
    /\ botMessages > initialMessageCount
    /\ IF pageCall = "sendMessageAndWaitForResponse" /\ round = 1
       THEN /\ round' = 2
            /\ ppc' = "typing"
            /\ UNCHANGED response
       ELSE /\ ppc' = "returned"
            /\ response' = IF pageCall = "sendMessageAndWaitForResponse"
                           THEN botMessages
                           ELSE response
            /\ UNCHANGED round
    /\ UNCHANGED <<pageCall, botMessages, posted, botDone, initialMessageCount>>
    /\ UNCHANGED outsidePage

\* 'Bot response did not appear within the specified timeout'
ResponseTimeout ==
    /\ ppc = "polling"
    /\ botMessages <= initialMessageCount
    /\ botDone
    /\ ppc' = "timedOut"
    /\ UNCHANGED <<pageCall, round, botMessages, posted, botDone, initialMessageCount, response>>
    /\ UNCHANGED outsidePage

NextPage ==
    \/ \E call \in PageCalls, existing \in 0..1 : sendMessage(call, existing)
    \/ BotPosts
    \/ BotStops
    \/ TypingChecked
    \/ Snapshot
    \/ ResponseSeen
    \/ ResponseTimeout

SpecPage ==
    Init /\ [][NextPage]_vars

(***************************************************************************)
(* TestDataManager.  The content of a JSON file is the sequence of the     *)
(* tokens JSON.stringify writes for a list of turns.                       *)
(***************************************************************************)
DataFiles ==
    { "conversations.json", "smoke.json" }

SavedScripts ==
    { << >>, << Turn("me") >>, << Turn("me"), Turn("bot") >> }

RECURSIVE StringifyTurns(_)
StringifyTurns(turns) ==
    IF turns = << >>
    THEN << >>
    ELSE << "{", "sender", turns[1].sender, "messageText", turns[1].messageText, "}" >>
         \o StringifyTurns(Tail(turns))

\* JSON.stringify(data, null, 2) of a list of turns
JSON_stringify(data) ==
    << "[" >> \o StringifyTurns(data) \o << "]" >>

RECURSIVE ParseTurns(_)
ParseTurns(tokens) ==
    IF Len(tokens) < 6
    THEN << >>
    ELSE << [sender |-> tokens[3], messageText |-> tokens[5]] >>
         \o ParseTurns(SubSeq(tokens, 7, Len(tokens)))

\* JSON.parse of the content of a file
JSON_parse(text) ==
    ParseTurns(SubSeq(text, 2, Len(text) - 1))

CacheKey(filename) ==
    << "json", filename, "all" >>

\* what loadJsonData(filename) returns when it does not throw
JsonData(filename) ==
    IF CacheKey(filename) \in DOMAIN cache
    THEN cache[CacheKey(filename)]
    ELSE JSON_parse(testData[filename])

\* loadJsonData throws when the file is neither cached nor on disk; a list
\* has no convos, so the conversations are the data
testDataManager_loadConversations(filename) ==
    /\ lastOp' = "loadConversations"
    /\ IF CacheKey(filename) \notin DOMAIN cache /\ filename \notin DOMAIN testData
       THEN /\ lastThrew' = TRUE
            /\ lastReturn' = Undefined
            /\ loadedConversations' = [file |-> filename, value |-> << >>]
            /\ UNCHANGED <<cache, sinceReset>>
       ELSE /\ lastThrew' = FALSE
            /\ lastReturn' = [t |-> "array", v |-> JsonData(filename)]
            /\ cache' = (CacheKey(filename) :> JsonData(filename)) @@ cache
            /\ loadedConversations' = [file |-> filename, value |-> JsonData(filename)]
            /\ sinceReset' = IF sinceReset.reset
                             THEN [sinceReset EXCEPT !.loads = @ \cup { CacheKey(filename) }]
                             ELSE sinceReset
    /\ UNCHANGED <<testData, savedScript>>
    /\ UNCHANGED <<errorLog, retryAttempts, screenshotVars, assertionVars>>
    /\ UNCHANGED outsideUtils

testDataManager_saveTestData(filename, data) ==
    /\ testData' = (filename :> JSON_stringify(data)) @@ testData
    /\ savedScript' = [file |-> filename, data |-> data]
    /\ lastOp' = "saveTestData"
    /\ lastThrew' = FALSE
    /\ lastReturn' = Undefined
    /\ UNCHANGED <<cache, loadedConversations, sinceReset>>
    /\ UNCHANGED <<errorLog, retryAttempts, screenshotVars, assertionVars>>
    /\ UNCHANGED outsideUtils

testDataManager_clearCache ==
    /\ cache' = << >>
    /\ lastOp' = "clearCache"
    /\ lastThrew' = FALSE
    /\ lastReturn' = Undefined
    /\ UNCHANGED <<testData, loadedConversations, savedScript, sinceReset>>
    /\ UNCHANGED <<errorLog, retryAttempts, screenshotVars, assertionVars>>
    /\ UNCHANGED outsideUtils

NextTestData ==
    \/ \E filename \in DataFiles : testDataManager_loadConversations(filename)
    \/ \E filename \in DataFiles, data \in SavedScripts :
           testDataManager_saveTestData(filename, data)
    \/ testDataManager_clearCache

SpecTestData ==
    Init /\ [][NextTestData]_vars

(***************************************************************************)
(* Assertions, and the utilities together under utils.resetAll.            *)
(***************************************************************************)
MaxAsserts ==
    2

\* _recordFailure
Failure(message, actual, expected) ==
    [message |-> message, actual |-> actual, expected |-> expected]

assertions_assertTrue(condition) ==
    /\ assertionCount < MaxAsserts
    /\ assertionCount' = assertionCount + 1
    /\ IF condition
       THEN /\ UNCHANGED failedAssertions
            /\ sinceReset' = Counted("asserts")
       ELSE /\ failedAssertions' =
                   Append(failedAssertions, Failure("Expected condition to be true", "false", "true"))
            /\ sinceReset' =
                   IF sinceReset.reset
                   THEN [sinceReset EXCEPT !.asserts = @ + 1, !.failures = @ + 1]
                   ELSE sinceReset
    /\ lastOp' = "assertTrue"
    /\ lastThrew' = ~condition
    /\ lastReturn' = Undefined
    /\ UNCHANGED <<errorLog, retryAttempts, screenshotVars, dataVars>>
    /\ UNCHANGED outsideUtils

\* the function handed in returns true, returns false or throws; the throw
\* that follows the record of a false result is caught by the same try and
\* recorded once more
assertions_assertCustom(outcome) ==
    /\ assertionCount < MaxAsserts
    /\ assertionCount' = assertionCount + 1
    /\ failedAssertions' =
           CASE outcome = "true" -> failedAssertions
             [] outcome = "false" ->
                    failedAssertions
                    \o << Failure("Custom assertion", "false", "true"),
                          Failure("Custom assertion", "Custom assertion", "successful execution") >>
             [] OTHER ->
                    Append(failedAssertions,
                           Failure("Custom assertion", "boom", "successful execution"))
    /\ sinceReset' =
           IF sinceReset.reset
           THEN [sinceReset EXCEPT !.asserts = @ + 1,
                                   !.failures = @ + Len(failedAssertions') - Len(failedAssertions)]
           ELSE sinceReset
    /\ lastOp' = "assertCustom"
    /\ lastThrew' = (outcome # "true")
    /\ lastReturn' = Undefined
    /\ UNCHANGED <<errorLog, retryAttempts, screenshotVars, dataVars>>
    /\ UNCHANGED outsideUtils

\* a reset that forgets the list of failures
assertions_resetStats_countOnly ==
    /\ assertionCount' = 0
    /\ failedAssertions' = failedAssertions

assertions_resetStats ==
    /\ assertionCount' = 0
    /\ failedAssertions' = << >>

\* executeWithRetry(fn, ctx, { maxRetries: -1 }), awaited: the key is set,
\* the loop is not entered, nothing deletes the key
errorHandler_executeWithRetry_skipped(ctx) ==
    /\ retryAttempts' = MapSet(retryAttempts, <<ctx, now>>, 0)
    /\ lastOp' = "executeWithRetry"
    /\ lastThrew' = FALSE
    /\ lastReturn' = Undefined
    /\ UNCHANGED <<errorLog, screenshotVars, assertionVars, dataVars, sinceReset>>
    /\ UNCHANGED outsideUtils

\* clearCache, resetStats, reset and clearErrorLog, one after the other
\* and none of them interrupted
utils_resetAll ==
    /\ cache' = << >>
    /\ assertions_resetStats
    /\ screenshotCount' = 0
    /\ currentTestName' = ""
    /\ currentSuiteName' = ""
    /\ screenshotHistory' = << >>
    /\ errorLog' = << >>
    /\ retryAttempts' = << >>
    /\ lastOp' = "resetAll"
    /\ lastThrew' = FALSE
    /\ lastReturn' = Undefined
    /\ sinceReset' = [NothingSinceReset EXCEPT !.reset = TRUE]
    /\ UNCHANGED <<screenshotFiles, saved, today, testData, loadedConversations, savedScript>>
    /\ UNCHANGED outsideUtils

\* utils.getAllStats, the numbers of it
getAllStats ==
    [testData |-> [size |-> Cardinality(DOMAIN cache)],
     assertions |-> [total |-> assertionCount, failed |-> Len(failedAssertions),
                     passed |-> assertionCount - Len(failedAssertions)],
     screenshots |-> [totalScreenshots |-> screenshotCount],
     errors |-> [totalErrors |-> Len(errorLog)]]

NextUtils ==
    \/ errorHandler_handleError(Join(w_Network, w_error), "login")
    \/ errorHandler_executeWithRetry_skipped("login")
    \/ \E outcome \in { "statFails", "ok" } : screenshotManager_takeScreenshot("", outcome)
    \/ \E condition \in BOOLEAN : assertions_assertTrue(condition)
    \/ assertions_assertCustom("false")
    \/ testDataManager_loadConversations("conversations.json")
    \/ testDataManager_saveTestData("conversations.json", << Turn("me") >>)
    \/ utils_resetAll

SpecUtils ==
    Init /\ [][NextUtils]_vars

(***************************************************************************)
(* Properties of executeWithRetry.                                         *)
(***************************************************************************)
\* the call has handed its outcome to the caller
Terminal ==
    pc \in {"resolved", "rejected"}

\* the effective maxRetries is an integer N >= 1
WholeMaxRetries ==
    lMaxRetries.t = "number" /\ ~lMaxRetries.h /\ lMaxRetries.w >= 1

FailedInvocations ==
    { k \in 1..Len(invocations) : ~invocations[k].ok }

\* the lower-cased message contains one of the words
Mentions(message, words) ==
    \E w \in words : includes(toLowerCase(message), w)

NonRetryableWords ==
    { s_fatal, s_critical, s_assertion }

\* the messages of the action's errors that the documented taxonomy makes
\* non-retryable
NonRetryableMessages ==
    { m \in RetryMessages : Mentions(m, NonRetryableWords) }

\* the error is retryable by the documented taxonomy
Retryable(e) ==
    e.message \notin NonRetryableMessages

\* every failure among the first n invocations carried a retryable error
RetryableBefore(n) ==
    \A k \in FailedInvocations : k < n => Retryable(invocations[k].error)

LastInvocation ==
    invocations[Len(invocations)]

\* C1 as stated: a call with maxRetries = N >= 1 whose every invocation
\* failed ends only after exactly N invocations, rejecting with the error
\* of the N-th invocation.
C1_AlwaysFailing_Original ==
    (Terminal /\ WholeMaxRetries /\ FailedInvocations = 1..Len(invocations))
        => /\ pc = "rejected"
           /\ Len(invocations) = lMaxRetries.w
           /\ thrown = invocations[lMaxRetries.w].error

\* C1 (amended): a call with maxRetries = N >= 1 whose every invocation
\* failed, the failures before the N-th with retryable errors, ends only
\* after exactly N invocations, rejecting with the error object of the N-th
\* invocation.
C1_AlwaysFailing ==
    ( /\ Terminal
      /\ WholeMaxRetries
      /\ FailedInvocations = 1..Len(invocations)
      /\ RetryableBefore(lMaxRetries.w) )
        => /\ pc = "rejected"
           /\ Len(invocations) = lMaxRetries.w
           /\ thrown = invocations[lMaxRetries.w].error

C1_Witness ==
    /\ pc = "rejected"
    /\ lMaxRetries = Number(3)
    /\ Len(invocations) = 3
    /\ thrown = invocations[3].error
    /\ thrown # invocations[1].error

\* C2 as stated: a call that has ended after k < maxRetries failed
\* invocations has resolved to the value of invocation k+1, which succeeded,
\* and the success was recorded with attempt number k+1.
C2_FailsThenSucceeds_Original ==
    (Terminal /\ WholeMaxRetries /\ Cardinality(FailedInvocations) < lMaxRetries.w)
        => /\ pc = "resolved"
           /\ Len(invocations) = Cardinality(FailedInvocations) + 1
           /\ LastInvocation.ok
           /\ result = LastInvocation.value
           /\ successAttempt = Cardinality(FailedInvocations) + 1

\* C2 (amended): a call that has ended after k < maxRetries failed
\* invocations, all of them with retryable errors, has resolved to the
\* value of invocation k+1, which succeeded, and the success was logged
\* with attempt number k+1.
C2_FailsThenSucceeds ==
    ( /\ Terminal
      /\ WholeMaxRetries
      /\ Cardinality(FailedInvocations) < lMaxRetries.w
      /\ RetryableBefore(Len(invocations) + 1) )
        => /\ pc = "resolved"
           /\ Len(invocations) = Cardinality(FailedInvocations) + 1
           /\ LastInvocation.ok
           /\ result = LastInvocation.value
           /\ successAttempt = Cardinality(FailedInvocations) + 1

\* two "Network error" failures, then "ok", with maxRetries = 3
C2_Witness ==
    /\ pc = "resolved"
    /\ lMaxRetries = Number(3)
    /\ Len(invocations) = 3
    /\ FailedInvocations = {1, 2}
    /\ invocations[1].error.message = Join(w_Network, w_error)
    /\ result = "ok"
    /\ successAttempt = 3

\* C3: a failure with a non-retryable error (fatal, critical, assertion)
\* ends the call at once with that error: no later invocation and no wait
\* after it; a failure with any other error ends the call only when no
\* attempt remains.
C3_NonRetryablePropagates ==
    (pc # "idle" /\ Len(invocations) >= 1 /\ ~LastInvocation.ok)
        => /\ RetryableBefore(Len(invocations))
           /\ ~Retryable(LastInvocation.error)
                => /\ pc = "rejected"
                   /\ thrown = LastInvocation.error
                   /\ Len(waits) = Len(invocations) - 1
                   /\ attempt = Len(invocations)
           /\ Retryable(LastInvocation.error)
                => /\ pc = "rejected" => IsLastAttempt(attempt, lMaxRetries)
                   /\ pc = "resolved" => ~LoopContinues(attempt, lMaxRetries)
                   /\ pc = "attempt" => Len(waits) = Len(invocations)

C3_Witness ==
    /\ pc = "rejected"
    /\ lMaxRetries = Number(3)
    /\ Len(invocations) = 2
    /\ invocations[2].error.message = Join(s_assertion, w_failed)
    /\ waits = <<lRetryDelay>>

\* C4 as stated: the call returns normally only when an invocation of the
\* action returned successfully, and then with that value.
C4_NeverSwallows ==
    pc = "resolved"
        => /\ Len(invocations) >= 1
           /\ LastInvocation.ok
           /\ result = LastInvocation.value

(***************************************************************************)
(* Properties of the classifier.                                           *)
(***************************************************************************)
Classified ==
    Len(classifyOutput) = 1

\* the documented cascade of the error type, first rule first
TypeRules ==
    << [words |-> {s_element, s_selector},   type |-> "ElementNotFound"],
       [words |-> {s_timeout, s_timed_out},  type |-> "TimeoutError"],
       [words |-> {s_network, s_connection}, type |-> "NetworkError"],
       [words |-> {s_assert, s_expected},    type |-> "AssertionError"],
       [words |-> {s_browser, s_webdriver},  type |-> "BrowserError"],
       [words |-> {s_javascript, s_script},  type |-> "JavaScriptError"] >>

\* the documented cascade of the severity, first rule first
SeverityRules ==
    << [words |-> {s_critical, s_fatal},              type |-> "Critical"],
       [words |-> {s_timeout, s_element_not_found},   type |-> "High"],
       [words |-> {s_network, s_connection},          type |-> "Medium"],
       [words |-> {s_assertion, s_expected},          type |-> "Low"] >>

\* the rules of a cascade the message matches
Matching(rules, message) ==
    { k \in 1..Len(rules) : Mentions(message, rules[k].words) }

\* the answer of the earliest matching rule, or the fallback
FirstMatch(rules, message, fallback) ==
    LET hits == Matching(rules, message)
    IN  IF hits = {}
        THEN fallback
        ELSE rules[CHOOSE k \in hits : \A j \in hits : k <= j].type

ErrorTypes ==
    { "ElementNotFound", "TimeoutError", "NetworkError", "AssertionError",
      "BrowserError", "JavaScriptError", "UnknownError" }

\* "Timeout waiting for element"
TimeoutWaitingForElement ==
    Join(w_Timeout_waiting_for, s_element)

\* C6: the type of every message is the type of the earliest matching rule
\* of the cascade element|selector, timeout|timed out, network|connection,
\* assert|expected, browser|webdriver, javascript|script, else UnknownError,
\* and is one of the seven types.
C6_TypeIsFirstMatch ==
    Classified
        => /\ classifyOutput[1].info.type
                = FirstMatch(TypeRules, classifyInput, "UnknownError")
           /\ classifyOutput[1].info.type \in ErrorTypes

\* a message that matches the rules of two types gets the earlier one
C6_Witness ==
    /\ Classified
    /\ Cardinality(Matching(TypeRules, classifyInput)) >= 2
    /\ classifyInput = TimeoutWaitingForElement
    /\ classifyOutput[1].info.type = "ElementNotFound"

\* C7 as stated: every message containing "timeout" is a TimeoutError of
\* severity High that is recoverable.
C7_Timeout_Original ==
    (Classified /\ Mentions(classifyInput, {s_timeout}))
        => /\ classifyOutput[1].info.type = "TimeoutError"
           /\ classifyOutput[1].info.severity = "High"
           /\ classifyOutput[1].info.recoverable = TRUE

\* C7 (amended): a message containing "timeout" is a TimeoutError unless it
\* also contains "element" or "selector" (then ElementNotFound), and has
\* severity High and is recoverable unless it also contains "critical" or
\* "fatal" (then Critical and not recoverable); "Timeout waiting for
\* element" yields ElementNotFound, High, recoverable, retryable.
C7_Timeout ==
    (Classified /\ Mentions(classifyInput, {s_timeout}))
        => /\ classifyOutput[1].info.type
                = IF Mentions(classifyInput, {s_element, s_selector})
                  THEN "ElementNotFound" ELSE "TimeoutError"
           /\ classifyOutput[1].info.severity
                = IF Mentions(classifyInput, {s_critical, s_fatal})
                  THEN "Critical" ELSE "High"
           /\ classifyOutput[1].info.recoverable
                = ~Mentions(classifyInput, {s_critical, s_fatal})
           /\ classifyInput = TimeoutWaitingForElement
                => /\ classifyOutput[1].info.type = "ElementNotFound"
                   /\ classifyOutput[1].info.severity = "High"
                   /\ classifyOutput[1].info.recoverable = TRUE
                   /\ classifyOutput[1].retryable = TRUE

\* a timeout message with a network keyword: TimeoutError, High, recoverable
C7_Witness ==
    /\ Classified
    /\ classifyInput = Join(w_Network, s_timeout)
    /\ classifyOutput[1].info.type = "TimeoutError"
    /\ classifyOutput[1].info.severity = "High"
    /\ classifyOutput[1].info.recoverable = TRUE

\* C8: a message containing "fatal" or "critical", in any letter case and
\* whatever else it contains, is neither recoverable nor retryable; a
\* message containing neither is recoverable.
C8_FatalCritical ==
    Classified
        => /\ Mentions(classifyInput, {s_fatal, s_critical})
                => /\ classifyOutput[1].info.recoverable = FALSE
                   /\ classifyOutput[1].retryable = FALSE
           /\ ~Mentions(classifyInput, {s_fatal, s_critical})
                => classifyOutput[1].info.recoverable = TRUE

\* "FATAL" in upper case next to a recoverable keyword
C8_Witness ==
    /\ Classified
    /\ classifyInput = Join(w_FATAL, s_timeout)
    /\ classifyOutput[1].info.recoverable = FALSE
    /\ classifyOutput[1].retryable = FALSE

\* C9: the severity of every message is the answer of the earliest matching
\* rule of the cascade critical|fatal -> Critical, timeout|element not found
\* -> High, network|connection -> Medium, assertion|expected -> Low, else
\* Medium, whatever the type.
C9_SeverityIsFirstMatch ==
    Classified
        => classifyOutput[1].info.severity
               = FirstMatch(SeverityRules, classifyInput, "Medium")

\* severity and type come from different rules: "assert" alone is an
\* AssertionError of the fallback severity Medium
C9_Witness ==
    /\ Classified
    /\ classifyInput = s_assert
    /\ classifyOutput[1].info.type = "AssertionError"
    /\ classifyOutput[1].info.severity = "Medium"

\* the documented type and severity of the messages of the action's errors
DocumentedType ==
    [m \in RetryMessages |-> FirstMatch(TypeRules, m, "UnknownError")]

DocumentedSeverity ==
    [m \in RetryMessages |-> FirstMatch(SeverityRules, m, "Medium")]

\* C5: while a call of executeWithRetry runs and when it has ended, the
\* error log holds, after the records it held when the call started,
\* exactly one record per failed invocation, in order, carrying the call's
\* context, the failure's message with its type and severity, and the
\* attempt numbers 1, 2, ..., f.
C5_EveryFailureLogged ==
    pc # "idle"
        => /\ Len(errorLog) = logLenAtCall + Cardinality(FailedInvocations)
           /\ \A k \in FailedInvocations :
                 /\ errorLog[logLenAtCall + k].context = context
                 /\ errorLog[logLenAtCall + k].attempt = k
                 /\ errorLog[logLenAtCall + k].message = invocations[k].error.message
                 /\ errorLog[logLenAtCall + k].maxRetries = lMaxRetries
                 /\ errorLog[logLenAtCall + k].type
                        = DocumentedType[invocations[k].error.message]
                 /\ errorLog[logLenAtCall + k].severity
                        = DocumentedSeverity[invocations[k].error.message]

\* a run from a non-empty log that ends at once on a non-retryable error,
\* attempts remaining
C5_Witness ==
    /\ pc = "rejected"
    /\ logLenAtCall = 1
    /\ Len(invocations) = 1
    /\ ~Retryable(thrown)
    /\ lMaxRetries = Number(3)
    /\ Len(errorLog) = 2
    /\ errorLog[2].attempt = 1

(***************************************************************************)
(* Properties of runConversationTest.                                      *)
(***************************************************************************)
ReplayCalls ==
    { "Build", "Start", "UserSays", "WaitBotSays", "BotSays" }

\* the driver call was made for turn k (1-based) and returned
Made(call, k) ==
    \E p \in 1..Len(driverCalls) :
        driverCalls[p] = [call |-> call, turn |-> k - 1, ok |-> TRUE]

\* turn k of the script was replayed without error
Replayed(k) ==
    IF convo[k].sender = "me"
    THEN Made("UserSays", k)
    ELSE Made("WaitBotSays", k) /\ Made("BotSays", k)

\* a call of the replay threw
ReplayFailed ==
    \E p \in 1..Len(driverCalls) :
        driverCalls[p].call \in ReplayCalls /\ ~driverCalls[p].ok

\* C10: the returned result reports success exactly when the session was
\* started and every turn of the script was replayed without error; once a
\* call of the replay has thrown (a bot reply that does not match, a wait
\* that times out) no turn is sent, awaited or checked any more, and the
\* result reports failure with the error.
C10_SuccessIffAllTurnsReplayed ==
    /\ rpc = "returned"
          => /\ report.success
                  <=> /\ ~ReplayFailed
                      /\ \A k \in 1..Len(convo) : Replayed(k)
             /\ ReplayFailed => (~report.success /\ report.error # "null")
    /\ \A p \in 1..Len(driverCalls) :
          (driverCalls[p].call \in ReplayCalls /\ ~driverCalls[p].ok)
              => \A q \in (p + 1)..Len(driverCalls) :
                     driverCalls[q].call \notin ReplayCalls

\* a three-turn script whose first bot reply fails the check: the third
\* turn is never sent and the verdict is failure
C10_Witness ==
    /\ rpc = "returned"
    /\ Len(convo) = 3
    /\ convo[2].sender = "bot"
    /\ convo[3].sender = "me"
    /\ Replayed(1)
    /\ report.error = "BotSays"
    /\ ~report.success
    /\ \A p \in 1..Len(driverCalls) : driverCalls[p].turn # 2

\* every turn replayed: success
C10_WitnessPass ==
    /\ rpc = "returned"
    /\ Len(convo) = 3
    /\ report.success
    /\ \A k \in 1..3 : Replayed(k)

(***************************************************************************)
(* Properties of runVirginMediaTests.                                      *)
(***************************************************************************)
\* the names of the first n conversations of the file, in file order
FileNames(n) ==
    [k \in 1..n |-> convos[k].name]

ResultNames ==
    [k \in 1..Len(testResults) |-> testResults[k].name]

SomeConversationFailed ==
    \E k \in 1..Len(testResults) : ~testResults[k].success

ProcessExited ==
    spc \in {"exited", "fatalError", "loadExit"}

\* C11 as stated: whenever the process has exited, every conversation of
\* the file has been executed in file order, there is exactly one result
\* per conversation in that order, and the exit code is 1 if and only if a
\* conversation failed.
C11_RunsEveryConversation_Original ==
    ProcessExited =>
        /\ started = FileNames(Len(convos))
        /\ ResultNames = FileNames(Len(convos))
        /\ exitCode = 1 <=> SomeConversationFailed
        /\ exitCode \in {0, 1}

\* C11: a failed conversation does not stop the run.  While the loop runs,
\* the conversations started and the results pushed are the first ones of
\* the file in file order, one result per conversation that has returned;
\* once the loop has ended every conversation of the file has been executed
\* and has exactly one result, whatever failed; a run that writes its
\* report exits with code 1 if and only if at least one conversation
\* failed, with 0 otherwise; a run that cannot load the file, initialise
\* the driver or write the report exits with code 1.
C11_RunsEveryConversation ==
    /\ Len(started) <= Len(convos) /\ started = FileNames(Len(started))
    /\ ResultNames = FileNames(Len(testResults))
    /\ Len(testResults) = IF spc = "test" THEN Len(started) - 1 ELSE Len(started)
    /\ spc \in {"generateReport", "finalStop", "finalClean", "exited"} =>
           /\ started = FileNames(Len(convos))
           /\ ResultNames = FileNames(Len(convos))
    /\ spc = "exited" =>
           /\ exitCode \in {0, 1}
           /\ exitCode = 1 <=> SomeConversationFailed
    /\ spc \in {"fatalError", "loadExit"} => exitCode = 1
    /\ ~ProcessExited => exitCode = StillRunning

\* a run of two conversations whose first one failed and whose second one
\* passed has exited with code 1
C11_Witness ==
    /\ spc = "exited"
    /\ Len(convos) = 2
    /\ Len(testResults) = 2
    /\ ~testResults[1].success
    /\ testResults[2].success
    /\ testResults[2].name = "billing"
    /\ exitCode = 1

(***************************************************************************)
(* Properties of the driver calls of one conversation.                     *)
(***************************************************************************)
TurnCallNames ==
    {"UserSays", "WaitBotSays", "BotSays"}

\* the driver calls made for the turns, in the order made
TurnCalls ==
    SelectSeq(driverCalls, LAMBDA c : c.call \in TurnCallNames)

RECURSIVE ScriptCalls(_)
\* what the script asks for from turn k on (1-based): a user turn is sent,
\* a bot turn is waited for and then checked
ScriptCalls(k) ==
    IF k > Len(convo)
    THEN << >>
    ELSE (IF convo[k].sender = "me"
          THEN << [call |-> "UserSays", turn |-> k - 1] >>
          ELSE << [call |-> "WaitBotSays", turn |-> k - 1],
                  [call |-> "BotSays", turn |-> k - 1] >>)
         \o ScriptCalls(k + 1)

\* the turn calls made so far are the first ones the script asks for, and
\* only the last of them may have failed
FollowsScript ==
    LET made == TurnCalls
        asked == ScriptCalls(1)
    IN  /\ Len(made) <= Len(asked)
        /\ \A p \in 1..Len(made) :
               /\ made[p].call = asked[p].call
               /\ made[p].turn = asked[p].turn
               /\ p < Len(made) => made[p].ok

\* every check of a bot reply comes right after the wait for that reply
ChecksFollowWaits ==
    \A p \in 1..Len(driverCalls) :
        driverCalls[p].call = "BotSays" =>
            /\ p > 1
            /\ driverCalls[p - 1] = [call |-> "WaitBotSays", turn |-> driverCalls[p].turn, ok |-> TRUE]

\* every wait for a bot reply comes after a user turn that was sent
WaitsFollowUserTurns ==
    \A p \in 1..Len(driverCalls) :
        driverCalls[p].call = "WaitBotSays" =>
            \E q \in 1..(p - 1) : driverCalls[q].call = "UserSays" /\ driverCalls[q].ok

\* Done: every call the script asks for was made and returned
Done ==
    /\ report.success
    /\ Len(TurnCalls) = Len(ScriptCalls(1))
    /\ \A p \in 1..Len(TurnCalls) : TurnCalls[p].ok

\* Failed: one call of the replay threw and no turn call was made after it
Failed ==
    /\ ~report.success
    /\ \E p \in 1..Len(driverCalls) :
           /\ ~driverCalls[p].ok
           /\ driverCalls[p].call \in TurnCallNames \cup {"Build", "Start"}
           /\ \A q \in (p + 1)..Len(driverCalls) : driverCalls[q].call \in {"Stop", "Clean"}

OnlyDoneOrFailed ==
    rpc = "returned" => (Done /\ ~Failed) \/ (Failed /\ ~Done)

\* C12 as stated: for every script the turns are processed strictly in
\* script order, every bot check is immediately preceded by a wait for a
\* bot reply that follows a sent user turn, no call is made a second time,
\* and a conversation ends in Done or in Failed.
C12_LinearStateMachine_Original ==
    /\ FollowsScript
    /\ ChecksFollowWaits
    /\ WaitsFollowUserTurns
    /\ OnlyDoneOrFailed

\* C12: the turns are processed strictly in script order and no call is
\* made a second time (the turn calls made are a prefix of the calls the
\* script asks for, none after a failed one), every bot check is
\* immediately preceded by the successful wait for the reply of the same
\* turn, a wait follows a sent user turn whenever the script has a user
\* turn before that bot turn, and a conversation ends in Done or in Failed.
C12_LinearStateMachine ==
    /\ FollowsScript
    /\ ChecksFollowWaits
    /\ \A p \in 1..Len(driverCalls) :
           (/\ driverCalls[p].call = "WaitBotSays"
            /\ \E k \in 1..driverCalls[p].turn : convo[k].sender = "me")
           => \E q \in 1..(p - 1) : driverCalls[q].call = "UserSays" /\ driverCalls[q].ok
    /\ OnlyDoneOrFailed

\* a script that opens with a bot turn has been replayed to Done
C12_Witness ==
    /\ rpc = "returned"
    /\ Done
    /\ Len(convo) = 3
    /\ convo[1].sender = "bot"
    /\ convo[2].sender = "me"
    /\ convo[3].sender = "bot"

(***************************************************************************)
(* Properties of the waits.                                                *)
(***************************************************************************)
Elapsed ==
    wallClock - startTime

NeverAnsweredTrue ==
    \A p \in 1..Len(evaluations) : ~evaluations[p].value

AnsweredTrueLast ==
    /\ evaluations # << >>
    /\ evaluations[Len(evaluations)].value

\* C13: a waitForCondition call returns as soon as its predicate first
\* answers true and evaluates it no more (only the last evaluation can be a
\* true one, and then the call has returned normally); it does not go on
\* sleeping once the deadline has passed; a call that ended without a true
\* answer has thrown to its caller, the supplied message if the predicate
\* itself did not throw, and the supplied message only after the timeout
\* has elapsed.
C13_PollUntil ==
    waitCall \in WaitCalls =>
        /\ \A p \in 1..(Len(evaluations) - 1) : ~evaluations[p].value
        /\ AnsweredTrueLast => wpc = "ended" /\ waitOutcome = Returned("undefined")
        /\ wpc = "sleeping" => Elapsed < timeoutArg
        /\ wpc = "ended" /\ NeverAnsweredTrue =>
               /\ waitOutcome.kind = "threw"
               /\ waitOutcome.message \in {timeoutMsg, "predicate failed"}
               /\ waitOutcome.message = timeoutMsg => Elapsed >= timeoutArg
        /\ wpc # "ended" => waitOutcome = NoOutcome

\* WaitUtils.waitForCondition has thrown the caller's message after at
\* least two evaluations of a predicate that never answered true
C13_Witness ==
    /\ waitCall = "WaitUtils.waitForCondition"
    /\ wpc = "ended"
    /\ Len(evaluations) >= 2
    /\ NeverAnsweredTrue
    /\ timeoutMsg = "Chat widget should be displayed"
    /\ waitOutcome = Threw("Chat widget should be displayed")

\* every evaluation of the predicate answered at once
Instantaneous ==
    \A p \in 1..Len(evaluations) : evaluations[p].at = evaluations[p].asked

\* C14 as stated, for predicates that answer at once: a waitForValidSession
\* whose predicate never answers true ends no earlier than timeout ms and
\* no later than timeout + pollInterval ms after it started; one whose
\* predicate is true from elapsed time T < timeout on ends successfully, at
\* the first poll instant at or after T, a multiple of the poll interval.
C14_PollTiming ==
    (/\ wpc = "ended"
     /\ waitCall = "waitForValidSession"
     /\ waitOutcome.kind = "returned"
     /\ Instantaneous) =>
        /\ trueFrom = Never =>
               /\ Elapsed >= timeoutArg
               /\ Elapsed <= timeoutArg + SessionPollInterval
        /\ trueFrom - startTime < timeoutArg =>
               /\ waitOutcome = Returned("true")
               /\ Elapsed % SessionPollInterval = 0
               /\ Elapsed >= trueFrom - startTime
               /\ Elapsed - SessionPollInterval < trueFrom - startTime

(***************************************************************************)
(* Properties of test cases and of the afterTest hook.                     *)
(***************************************************************************)
Captures ==
    {"saveScreenshot", "getLogs"}

\* the session probe made by the same code before the call at position p
ProbeBefore(p) ==
    { q \in 1..(p - 1) : /\ browserCalls[q].by = browserCalls[p].by
                         /\ browserCalls[q].call = "getTitle" }

\* C15: when a test case fails, the screenshot and the console logs are
\* taken only after a session probe (browser.getTitle) has succeeded; after
\* a probe that failed neither capture is attempted and the probe is not
\* made again; the hook returns.
C15_CaptureOnlyAfterProbe ==
    /\ \A p \in 1..Len(browserCalls) :
           browserCalls[p].call \in Captures =>
               /\ ProbeBefore(p) # {}
               /\ \A q \in ProbeBefore(p) : browserCalls[q].ok
    /\ \A p \in 1..Len(browserCalls) : Cardinality(ProbeBefore(p)) <= 1
    /\ (hpc = "reported" /\ ~passed) => browserCalls # << >>

\* C16: an error that ends the scenario of a test body is propagated to
\* the test runner: once the body has ended after such an error, the
\* verdict handed to afterTest is not passed.
C16_ErrorsFailTheTest ==
    (scenarioError # << >> /\ hpc \in {"hookProbe", "hookScreenshot", "hookLogs", "reported"})
        => (bodyThrew /\ ~passed)

(***************************************************************************)
(* Properties of the error log.                                            *)
(***************************************************************************)
HandleOps ==
    { "handleError", "handleElementError", "handleNetworkError",
      "handleTimeoutError", "handleAssertionError", "handleBrowserError" }

\* the log after the step is the log before it with one record at the end
OneRecordAppended ==
    /\ Len(errorLog') = Len(errorLog) + 1
    /\ \A k \in 1..Len(errorLog) : errorLog'[k] = errorLog[k]

\* C19: the error log is append-only: a step of handleError or of a
\* handle*Error method adds exactly one record at the end and leaves the
\* earlier records, their number and their order as they were; the length
\* decreases only in a step of clearErrorLog, which empties the log.
C19_AppendOnly ==
    [][ /\ lastOp' \in HandleOps => OneRecordAppended
        /\ lastOp' = "clearErrorLog" => errorLog' = << >>
        /\ Len(errorLog') < Len(errorLog) => lastOp' = "clearErrorLog" ]_vars

\* handleTimeoutError has added a second record to a log that held one of
\* handleElementError
C19_Witness ==
    /\ lastOp = "handleTimeoutError"
    /\ Len(errorLog) = 2
    /\ errorLog[1].context = "click on element: #send-button"
    /\ errorLog[2].type = "TimeoutError"

(***************************************************************************)
(* Properties of the screenshot history.                                   *)
(***************************************************************************)
CaptureOps ==
    { "takeScreenshot", "takeCustomScreenshot" }

OneScreenshotAppended ==
    /\ Len(screenshotHistory') = Len(screenshotHistory) + 1
    /\ \A k \in 1..Len(screenshotHistory) : screenshotHistory'[k] = screenshotHistory[k]

\* the history before the step is a leading part of the history after it
HistoryExtended ==
    /\ Len(screenshotHistory') >= Len(screenshotHistory)
    /\ \A k \in 1..Len(screenshotHistory) : screenshotHistory'[k] = screenshotHistory[k]

\* the history after the step is a trailing part of the history before it
OldestDropped ==
    \E n \in 0..Len(screenshotHistory) :
        screenshotHistory' = SubSeq(screenshotHistory, n + 1, Len(screenshotHistory))

C18_RoundTrip ==
    [][ ( /\ lastOp = "saveTestData"
          /\ lastOp' = "loadConversations"
          /\ loadedConversations'.file = savedScript.file )
        => ( ~lastThrew' /\ loadedConversations'.value = savedScript.data ) ]_vars

(***************************************************************************)
(* Properties of utils.resetAll.                                           *)
(***************************************************************************)
AllEmpty ==
    /\ Len(errorLog) = 0
    /\ DOMAIN retryAttempts = {}
    /\ screenshotCount = 0
    /\ Len(screenshotHistory) = 0
    /\ assertionCount = 0
    /\ Len(failedAssertions) = 0
    /\ Cardinality(DOMAIN cache) = 0

\* the statistics are those of the operations made since the reset
StatsSinceReset ==
    /\ getAllStats.errors.totalErrors = sinceReset.errors
    /\ getAllStats.screenshots.totalScreenshots = sinceReset.shots
    /\ getAllStats.assertions.total = sinceReset.asserts
    /\ getAllStats.assertions.failed = sinceReset.failures
    /\ getAllStats.testData.size = Cardinality(sinceReset.loads)

\* C17: when utils.resetAll has returned, the error log and the retry
\* bookkeeping, the screenshot count and history, the assertion total and
\* the list of failed assertions and the test-data cache are all empty,
\* whatever was called before; and the statistics read at any later time
\* count the operations made after the reset and no other.
C17_ResetAllEmpties ==
    /\ lastOp = "resetAll" => AllEmpty
    /\ sinceReset.reset => StatsSinceReset

\* a resetAll has emptied everything and one error, one screenshot, one
\* failed assertion and one load have been made since
C17_Witness ==
    /\ sinceReset.reset
    /\ saved = 2
    /\ getAllStats.errors.totalErrors = 1
    /\ getAllStats.screenshots.totalScreenshots = 1
    /\ getAllStats.assertions.failed = 1
    /\ getAllStats.testData.size = 1

(***************************************************************************)
(* Properties of the specialised handlers.                                 *)
(***************************************************************************)
LastRecord ==
    errorLog[Len(errorLog)]

\* the type the handler called last puts in its options
SuppliedType ==
    CASE lastOp = "handleTimeoutError" -> "TimeoutError"
      [] lastOp = "handleAssertionError" -> "AssertionError"
      [] lastOp = "handleBrowserError" -> "BrowserError"
      [] OTHER -> ""

\* C21: handleTimeoutError returns and logs a record of type TimeoutError
\* whatever the message of the error is, handleAssertionError one of type
\* AssertionError and handleBrowserError one of type BrowserError: the type
\* the handler supplies wins over the type computed from the message.
C21_SuppliedTypeWins ==
    SuppliedType # "" =>
        /\ LastRecord.type = SuppliedType
        /\ lastReturn.t = "object"
        /\ lastReturn.v.type = SuppliedType

\* handleTimeoutError has logged and returned a TimeoutError record for an
\* error whose message reads as a network error
C21_Witness ==
    /\ lastOp = "handleTimeoutError"
    /\ LastRecord.message = Join(w_Network, w_error)
    /\ _categorizeError(Error(LastRecord.message, 1)) = "NetworkError"
    /\ lastReturn.v.type = "TimeoutError"

\* C22: for an error whose message mentions the element, handleElementError
\* gives its caller an error-information object of type ElementNotFound
\* with recoverable true.
C22_ElementErrorInfo ==
    ( /\ lastOp = "handleElementError"
      /\ LastRecord.message = Join(s_element, w_not_found) )
    => /\ lastReturn.t = "object"
       /\ lastReturn.v.type = "ElementNotFound"
       /\ lastReturn.v.recoverable = TRUE

(***************************************************************************)
(* Properties of takeBeforeAfterScreenshots.                               *)
(***************************************************************************)
StepNames ==
    << "before", "action", "after" >>

C24_ReplyEndsWait ==
    (pageCall = "waitForResponse" /\ ppc = "timedOut") => posted = 0

\* C27: when the bot posts exactly one reply, sendMessageAndWaitForResponse
\* returns the text of that reply, the last bot message on the page; it
\* does not need a second or a third reply to complete.
C27_OneReplyIsEnough ==
    ( /\ pageCall = "sendMessageAndWaitForResponse"
      /\ ppc \in { "returned", "timedOut" }
      /\ botDone
      /\ posted = 1 )
    => (ppc = "returned" /\ response = botMessages)

(***************************************************************************)
(* Properties of the waits and the bookkeeping of executeWithRetry.        *)
(***************************************************************************)
\* C25: every wait of a run of executeWithRetry lasts the run's retryDelay
\* and stands between two consecutive attempts: as many waits as attempts
\* when the next attempt is about to start, one less while a wait is under
\* way and when the run has ended after at least one attempt.
C25_OneWaitBetweenAttempts ==
    pc # "idle"
        => /\ \A k \in 1..Len(waits) : waits[k] = lRetryDelay
           /\ pc = "attempt" => Len(waits) = Len(invocations)
           /\ pc = "waiting" => Len(waits) = Len(invocations) - 1
           /\ (pc \in { "resolved", "rejected" } /\ Len(invocations) >= 1)
                => Len(waits) = Len(invocations) - 1

\* C26: the retryAttempts map holds the entry of a run of executeWithRetry
\* while the run is under way and no longer holds it once the run has
\* ended, whichever way it ended.
C26_EntryDiscarded ==
    /\ pc \in { "attempt", "waiting" } => retryKey \in DOMAIN retryAttempts
    /\ pc \in { "resolved", "rejected" } => retryKey \notin DOMAIN retryAttempts

(***************************************************************************)
(* Properties of the screenshot count.                                     *)
(***************************************************************************)
\* C30: the totalScreenshots of getScreenshotStats is the number of records
\* of the history, whatever captures, failed captures, clean-ups and resets
\* came before.
C30_CountIsHistoryLength ==
    getScreenshotStats.totalScreenshots = Len(getScreenshotStats.history)

(***************************************************************************)
(* Properties of the assertion statistics.                                 *)
(***************************************************************************)
\* C28: the statistics of the assertions always report
\* 0 <= failed <= total and passed = total - failed >= 0.
C28_StatsConsistent ==
    LET stats == getAllStats.assertions
    IN  /\ 0 <= stats.failed
        /\ stats.failed <= stats.total
        /\ stats.passed = stats.total - stats.failed
        /\ stats.passed >= 0

(***************************************************************************)
(* Properties of the life cycle of the Botium driver.                      *)
(***************************************************************************)
\* C29: over a whole run of the script, Build and Start are only issued on
\* a driver that is not started, and Stop only on a driver that is.
C29_LifecyclePaired ==
    /\ (spc = "initBuild" \/ rpc \in { "Build", "Start" }) => ~driverStarted
    /\ (spc = "finalStop" \/ rpc = "Stop") => driverStarted

====
